---- MODULE Spec2Model ----
(***************************************************************************)
(* Model of the bot-maker platform: the per-tenant webhook handler of the  *)
(* created bots (created.js), the controlling "maker" bot (maker.js), the  *)
(* broadcast fan-out and the channel-URL normalisation.                    *)
(*                                                                         *)
(* Texts are sequences of one-character strings, so that trim(), the       *)
(* regular expressions and === are computed character by character.  An    *)
(* emoji of a keyboard label is one character, written "(name)".           *)
(***************************************************************************)
EXTENDS Integers, Sequences, FiniteSets, TLC

VARIABLES
  bots,         \* collection Bot: set of rows [token, creatorId]
  botUsers,     \* collection BotUser: set of rows (one per tenant and user)
  channelUrls,  \* collection ChannelUrl: set of rows [botToken, url]
  users,        \* collection User of the maker bot: set of rows
  webhooks,     \* tokens whose webhook is registered at the transport
  now,          \* Math.floor(Date.now() / 1000)
  inflight,     \* created-bot requests being handled: slot -> handler record
  mk,           \* maker-bot invocations in flight: slot -> invocation
  last,         \* the request that completed last, with its response and sends
  events,       \* number of inbound events accepted so far
  bc            \* a stand-alone run of broadcastMessage

vars == <<bots, botUsers, channelUrls, users, webhooks, now, inflight, mk, last,
          events, bc>>

-----------------------------------------------------------------------------
(* Characters and strings *)

Whitespace == {" ", "\n", "\t"}
LineTerminators == {"\n", "\r"}
Digits == {"0", "1", "2", "3", "4", "5", "6", "7", "8", "9"}

\* String.prototype.toLowerCase on one character (the letters the regular
\* expressions with the i flag can meet).
Lower(c) ==
  CASE c = "H" -> "h" [] c = "T" -> "t" [] c = "P" -> "p" [] c = "S" -> "s"
    [] c = "M" -> "m" [] c = "E" -> "e" [] OTHER -> c

LowerStr(s) == [i \in 1..Len(s) |-> Lower(s[i])]

Prefix(s, n) == SubSeq(s, 1, IF n < Len(s) THEN n ELSE Len(s))
Drop(s, n) == SubSeq(s, n + 1, Len(s))

RECURSIVE TrimLeft(_)
TrimLeft(s) ==
  IF s # <<>> /\ Head(s) \in Whitespace THEN TrimLeft(Tail(s)) ELSE s

RECURSIVE TrimRight(_)
TrimRight(s) ==
  IF s # <<>> /\ s[Len(s)] \in Whitespace
  THEN TrimRight(SubSeq(s, 1, Len(s) - 1)) ELSE s

\* String.prototype.trim
Trim(s) == TrimRight(TrimLeft(s))

\* /^\d+$/.test(s)
IsNumericId(s) == s # <<>> /\ \A i \in 1..Len(s) : s[i] \in Digits

SchemeHttps == <<"h", "t", "t", "p", "s", ":", "/", "/">>
SchemeHttp == <<"h", "t", "t", "p", ":", "/", "/">>
TmePrefix == <<"t", ".", "m", "e", "/">>
HttpsTmePrefix == SchemeHttps \o TmePrefix

\* s.replace(/^(https?:\/\/)?/i, '')
StripScheme(s) ==
  IF LowerStr(Prefix(s, 8)) = SchemeHttps THEN Drop(s, 8)
  ELSE IF LowerStr(Prefix(s, 7)) = SchemeHttp THEN Drop(s, 7)
  ELSE s

\* s.replace(/\/+$/, '')
RECURSIVE StripTrailingSlashes(_)
StripTrailingSlashes(s) ==
  IF s # <<>> /\ s[Len(s)] = "/"
  THEN StripTrailingSlashes(SubSeq(s, 1, Len(s) - 1)) ELSE s

\* /^t\.me\//i.test(s)
HasTmePrefix(s) == LowerStr(Prefix(s, 5)) = TmePrefix

\* the value of correctedUrl for the input text
CorrectedUrl(text) ==
  LET a == StripTrailingSlashes(StripScheme(Trim(text)))
      b == IF HasTmePrefix(a) THEN a ELSE TmePrefix \o a
  IN  SchemeHttps \o b

\* /^https:\/\/t\.me\/.+$/.test(u): "." matches no line terminator and "$"
\* (no m flag) only the end of the input
UrlRegexTest(u) ==
  /\ Prefix(u, 13) = HttpsTmePrefix
  /\ Len(u) > 13
  /\ \A i \in 14..Len(u) : u[i] \notin LineTerminators

-----------------------------------------------------------------------------
(* Labels, commands and sample texts *)

CmdStart == <<"/", "s", "t", "a", "r", "t">>
CmdPanel == <<"/", "p", "a", "n", "e", "l">>
CmdClear == <<"/", "c", "l", "e", "a", "r">>
LblStatistics == <<"(chart)", " ", "S", "t", "a", "t", "i", "s", "t", "i",
  "c", "s">>
LblBroadcast == <<"(pin)", " ", "B", "r", "o", "a", "d", "c", "a", "s", "t">>
LblSetChannelUrl == <<"(link)", " ", "S", "e", "t", " ", "C", "h", "a", "n",
  "n", "e", "l", " ", "U", "R", "L">>
LblBlock == <<"(no)", " ", "B", "l", "o", "c", "k">>
LblUnlock == <<"(unlock)", " ", "U", "n", "l", "o", "c", "k">>
LblBack == <<"(return)", " ", "B", "a", "c", "k">>
LblCancel == <<"C", "a", "n", "c", "e", "l">>
LblCreateBot == <<"(tools)", " ", "C", "r", "e", "a", "t", "e", " ", "B", "o",
  "t">>
LblDeleteBot == <<"(bin)", " ", "D", "e", "l", "e", "t", "e", " ", "B", "o",
  "t">>
LblMyBots == <<"(list)", " ", "M", "y", " ", "B", "o", "t", "s">>
LblBroadcastUser == <<"(horn)", " ", "B", "r", "o", "a", "d", "c", "a", "s",
  "t", " ", "U", "s", "e", "r">>
LblBroadcastSub == <<"(mega)", " ", "B", "r", "o", "a", "d", "c", "a", "s",
  "t", " ", "S", "u", "b">>
LblRemoveBot == <<"(bin)", " ", "R", "e", "m", "o", "v", "e", " ", "B", "o",
  "t">>
LblPlainBack == <<"B", "a", "c", "k">>
TxtHello == <<"h", "i">>
UrlTmeFoo == <<"t", ".", "m", "e", "/", "f", "o", "o">>
UrlHttpsFooSlash == <<"h", "t", "t", "p", "s", ":", "/", "/", "t", ".", "m",
  "e", "/", "f", "o", "o", "/">>
UrlHttpFoo == <<"h", "t", "t", "p", ":", "/", "/", "t", ".", "m", "e", "/",
  "f", "o", "o">>
UrlFoo == <<"f", "o", "o">>
UrlNotAUrl == <<"n", "o", "t", " ", "a", " ", "u", "r", "l">>
UrlStoredFoo == <<"h", "t", "t", "p", "s", ":", "/", "/", "t", ".", "m", "e",
  "/", "f", "o", "o">>
UrlTelegramMe == <<"t", "e", "l", "e", "g", "r", "a", "m", ".", "m", "e", "/",
  "t", "e", "s", "t", "_", "c", "h", "a", "n", "n", "e", "l">>
UrlStoredTestChannel == <<"h", "t", "t", "p", "s", ":", "/", "/", "t", ".",
  "m", "e", "/", "t", "e", "s", "t", "_", "c", "h", "a", "n", "n", "e", "l">>
\* the default of ChannelUrlSchema.url and of getChannelUrl
DefaultChannelUrl == <<"h", "t", "t", "p", "s", ":", "/", "/", "t", ".", "m",
  "e", "/", "K", "a", "l", "i", "_", "L", "i", "n", "u", "x", "_", "B", "O",
  "T", "S">>

-----------------------------------------------------------------------------
(* Identities, credentials and rows *)

\* user ids are the decimal strings of from.id
U1 == <<"1">>
U2 == <<"2">>
U3 == <<"3">>
Users == {U1, U2, U3}
NoId == <<>>                \* an update without chat or sender
OWNER_ID == U1              \* process.env.OWNER_ID

\* bot tokens; TokX belongs to no created bot
TokA == <<"A">>
TokB == <<"B">>
TokX == <<"X">>
Tokens == {TokA, TokB}
NoToken == <<>>             \* req.query.token missing

NoText == <<"(undefined)">> \* message.text of a message that has no text

AdminStates == {"none", "admin_panel", "awaiting_broadcast",
                "awaiting_channel", "awaiting_block", "awaiting_unlock"}

ContentKinds == {"text", "photo", "document", "video", "audio", "voice",
                 "sticker", "other"}

\* a Bot row
BotRow(token, creator) == [token |-> token, creatorId |-> creator]

\* BotUser.create({...}) of the created-bot handler with the schema defaults
NewBotUser(id, token, user, t) ==
  [id |-> id, botToken |-> token, userId |-> user, hasJoined |-> FALSE,
   userStep |-> "none", adminState |-> "none", lastInteraction |-> t,
   isBlocked |-> FALSE, isFirstStart |-> TRUE]

\* placeholder of a document variable that holds no document
NoDoc == NewBotUser(0, NoToken, NoId, 0)

\* a User row of the maker bot (UserSchema, User.create in makerBot.start)
NewUser(id, user) ==
  [id |-> id, userId |-> user, step |-> "none", adminState |-> "none",
   isBlocked |-> FALSE, isFirstStart |-> TRUE]

NoUser == NewUser(0, NoId)

\* the _id of a new document: one no stored row has
FreshId(rows) == CHOOSE n \in 1..(Cardinality(rows) + 1) :
                   \A r \in rows : r.id # n

\* Model.findOne(filter): the matching rows, of which the first is returned
BotsWith(bs, token) == {b \in bs : b.token = token}
BotUsersWith(rows, token, user) ==
  {r \in rows : r.botToken = token /\ r.userId = user}
UsersWith(rows, user) == {r \in rows : r.userId = user}
ChannelUrlsWith(rows, token) == {r \in rows : r.botToken = token}
First(rows) == CHOOSE r \in rows : \A q \in rows : r.id <= q.id

-----------------------------------------------------------------------------
(* Transport and documents *)

\* the transport call made for a message of the given content kind, by the
\* if/else chain shared by broadcastMessage and the echo of regular messages
SendMethod(content) ==
  CASE content = "text" -> "sendMessage"
    [] content = "photo" -> "sendPhoto"
    [] content = "document" -> "sendDocument"
    [] content = "video" -> "sendVideo"
    [] content = "audio" -> "sendAudio"
    [] content = "voice" -> "sendVoice"
    [] content = "sticker" -> "sendSticker"
    [] OTHER -> "unsupported"

\* one transport call, as recorded in a handler's list of sends
Sent(to, kind, ok) == [to |-> to, kind |-> kind, ok |-> ok]

\* A world is the stored state one handler step reads and writes, together
\* with that handler's own variables h.
World(h, held) ==
  [bots |-> bots, botUsers |-> botUsers, channelUrls |-> channelUrls,
   users |-> users, webhooks |-> webhooks, now |-> now, held |-> held,
   h |-> h]

\* a transport call that is awaited: it resolves (ok) or rejects
AwaitSend(w, to, kind) ==
  { [ok |-> ok, w |-> [w EXCEPT !.h.out = Append(@, Sent(to, kind, ok))]] :
      ok \in BOOLEAN }

\* a transport call that is not awaited: the handler goes on without its
\* result, and a rejection reaches no catch block
FireSend(w, to, kind) == [w EXCEPT !.h.out = Append(@, Sent(to, kind, TRUE))]

\* assignment to a path of the loaded mongoose document: the path becomes
\* modified only when the value changes
SetDoc(w, f, v) ==
  IF w.h.doc[f] = v THEN w
  ELSE [w EXCEPT !.h.doc[f] = v, !.h.dirty = @ \cup {f}]

\* a save that writes the whole document over the row
MergedWhole(row, doc, dirty) == doc

\* the row after a $set of the modified paths
Merged(row, doc, dirty) ==
  [f \in DOMAIN row |-> IF f \in dirty THEN doc[f] ELSE row[f]]

\* botUser.save(): writes the modified paths to the row with the document's
\* _id and rejects when that row is gone; nothing is sent to the store when
\* no path is modified
SaveBotUser(w) ==
  LET rows == {r \in w.botUsers : r.id = w.h.doc.id} IN
  IF w.h.dirty = {} THEN {[ok |-> TRUE, w |-> w]}
  ELSE IF rows = {} THEN {[ok |-> FALSE, w |-> w]}
  ELSE {[ok |-> TRUE,
         w |-> [w EXCEPT
                  !.botUsers = (@ \ rows) \cup
                     {Merged(r, w.h.doc, w.h.dirty) : r \in rows},
                  !.h.dirty = {}]]}

\* the catch block of the created-bot handler: res.status(500)
Throw(w) == [w EXCEPT !.h.pc = "done", !.h.resp = 500, !.h.script = <<>>]

\* res.status(code) and the end of the handler
Respond(w, code) == [w EXCEPT !.h.pc = "done", !.h.resp = code,
                              !.h.script = <<>>]

\* "return;" inside the try block: the handler ends and no response is sent
ReturnNoResponse(w) == [w EXCEPT !.h.pc = "done", !.h.script = <<>>]

Goto(w, pc) == [w EXCEPT !.h.pc = pc]

-----------------------------------------------------------------------------
(* broadcastMessage *)

\* the loop state of broadcastMessage(bot, message, targetUsers, adminId)
NewBroadcast(targets, adminId, content) ==
  [targets |-> targets, adminId |-> adminId, content |-> content, idx |-> 1,
   successCount |-> 0, failCount |-> 0, log |-> <<>>]

NoBroadcast == NewBroadcast(<<>>, NoId, "text")

\* "if (targetUser.userId === adminId) continue;"
RECURSIVE BroadcastSkip(_)
BroadcastSkip(b) ==
  IF b.idx <= Len(b.targets) /\ b.targets[b.idx] = b.adminId
  THEN BroadcastSkip([b EXCEPT !.idx = @ + 1])
  ELSE b

\* the for loop has run out of recipients
BroadcastFinished(b) == BroadcastSkip(b).idx > Len(b.targets)

\* a tally that counts a rejected send as sent
BroadcastTallyAllSent(b, ok) ==
  [b EXCEPT !.idx = @ + 1,
            !.successCount = @ + 1,
            !.log = Append(@, Sent(b.targets[b.idx], SendMethod(b.content),
                                   ok))]

\* the send to the recipient at position idx resolved or rejected
BroadcastTally(b, ok) ==
  [b EXCEPT !.idx = @ + 1,
            !.successCount = IF ok THEN @ + 1 ELSE @,
            !.failCount = IF ok THEN @ ELSE @ + 1,
            !.log = Append(@, Sent(b.targets[b.idx], SendMethod(b.content),
                                   ok))]

\* a loop that a rejected send would end
BroadcastStepAborting(b, ok) ==
  IF ok THEN BroadcastTally(BroadcastSkip(b), ok)
  ELSE [BroadcastTally(BroadcastSkip(b), ok) EXCEPT !.idx = Len(b.targets) + 1]

\* one iteration of the loop body for the next recipient that is not skipped
BroadcastStep(b, ok) == BroadcastTally(BroadcastSkip(b), ok)

-----------------------------------------------------------------------------
(* The webhook handler of the created bots: module.exports of created.js.  *)
(* h.pc names the awaited call the handler is suspended at; a step runs    *)
(* that call and the code after it up to the next awaited call.            *)

\* req.query.token and req.body of a POST
Update(token, kind, chat, from, content, text, data) ==
  [token |-> token, kind |-> kind, chat |-> chat, from |-> from,
   content |-> content, text |-> text, data |-> data]

NewHandler(update) ==
  [pc |-> "findBot", update |-> update, creatorId |-> NoId, doc |-> NoDoc,
   dirty |-> {}, channelUrl |-> <<>>, script |-> <<>>, resp |-> 0,
   out |-> <<>>, created |-> FALSE, lostRace |-> FALSE, b |-> NoBroadcast,
   target |-> NoId, blockTo |-> FALSE, url |-> <<>>]

IdleHandler == [NewHandler(Update(NoToken, "none", NoId, NoId, "text", NoText,
                                  "none")) EXCEPT !.pc = "idle"]

\* the statements of a branch after its first awaited call
OpSend(to, kind) == [op |-> "send", to |-> to, kind |-> kind]
OpSet(f, v) == [op |-> "set", field |-> f, val |-> v]
OpSave == [op |-> "save"]
OpReturn == [op |-> "return"]

\* "await send(...); botUser.adminState = st; await botUser.save();"
ReplyAndMove(chat, kind, st) ==
  <<OpSend(chat, kind), OpSet("adminState", st), OpSave>>

\* runs the statements that are not awaited up to the next awaited one; the
\* end of the statements is "res.status(200).json({ ok: true })"
RECURSIVE RunSync(_)
RunSync(w) ==
  IF w.h.script = <<>> THEN Respond(w, 200)
  ELSE LET o == Head(w.h.script) IN
       IF o.op = "set"
       THEN RunSync([SetDoc(w, o.field, o.val) EXCEPT !.h.script = Tail(@)])
       ELSE IF o.op = "return" THEN ReturnNoResponse(w)
       ELSE Goto(w, "script")

WithScript(w, script) == RunSync([w EXCEPT !.h.script = script])

\* the awaited statement at the head of the script: a send or a save
ScriptStep(w) ==
  LET o == Head(w.h.script)
      rest == [w EXCEPT !.h.script = Tail(@)]
  IN  IF o.op = "send"
      THEN { IF r.ok THEN RunSync(r.w) ELSE Throw(r.w) :
               r \in AwaitSend(rest, o.to, o.kind) }
      ELSE { IF r.ok THEN RunSync(r.w) ELSE Throw(r.w) :
               r \in SaveBotUser(rest) }

\* the router without the chatId and fromId check of lines 156-159
FindBotUnchecked(w) ==
  LET u == w.h.update
      found == BotsWith(w.bots, u.token)
  IN  IF u.token = NoToken THEN {Respond(w, 400)}
      ELSE IF found = {} THEN {Respond(w, 404)}
      ELSE {[w EXCEPT !.h.pc = "findUser",
                      !.h.creatorId = (CHOOSE b \in found : TRUE).creatorId]}

\* lines 139-159: token check, Bot.findOne, chatId and fromId
FindBot(w) ==
  LET u == w.h.update
      found == BotsWith(w.bots, u.token)
  IN  IF u.token = NoToken THEN {Respond(w, 400)}
      ELSE IF found = {} THEN {Respond(w, 404)}
      ELSE IF u.chat = NoId \/ u.from = NoId THEN {Respond(w, 400)}
      ELSE {[w EXCEPT !.h.pc = "findUser",
                      !.h.creatorId = (CHOOSE b \in found : TRUE).creatorId]}

\* line 193: botUser.lastInteraction = Math.floor(Date.now() / 1000)
Touch(w) == SetDoc(w, "lastInteraction", w.now)

\* lines 180 and 193: with the document loaded, either the first-start
\* notification or the save of lastInteraction is awaited next
AfterLoad(w) ==
  IF w.h.doc.isFirstStart THEN Goto(w, "notify")
  ELSE Goto(Touch(w), "saveTouch")

\* lines 162-163: BotUser.findOne({ botToken, userId: fromId })
FindUser(w) ==
  LET found == BotUsersWith(w.botUsers, w.h.update.token, w.h.update.from)
  IN  IF found = {} THEN {Goto(w, "createUser")}
      ELSE {AfterLoad([w EXCEPT !.h.doc = First(found)])}

\* the unique index { botToken: 1, userId: 1 } of line 40 rejects an insert
UniqueBotUserViolated(rows, token, user) ==
  BotUsersWith(rows, token, user) # {}

\* lines 164-177: BotUser.create; a duplicate key error rejects the await
CreateUser(w) ==
  LET u == w.h.update
      row == NewBotUser(FreshId(w.botUsers \cup w.held), u.token, u.from,
                        w.now)
  IN  IF UniqueBotUserViolated(w.botUsers, u.token, u.from)
      THEN {[Throw(w) EXCEPT !.h.lostRace = TRUE]}
      ELSE {AfterLoad([w EXCEPT !.botUsers = @ \cup {row}, !.h.doc = row,
                                !.h.created = TRUE])}

\* lines 181-191: the notification to the creator of the bot, and
\* isFirstStart = false once it was sent
Notify(w) ==
  { IF r.ok
    THEN Goto(Touch(SetDoc(r.w, "isFirstStart", FALSE)), "saveTouch")
    ELSE Throw(r.w) :
      r \in AwaitSend(w, w.h.creatorId, "notify") }

\* line 196: the block gate
BlockedSender(w) == w.h.doc.isBlocked /\ w.h.update.from # w.h.creatorId

\* lines 194-199: botUser.save(), then the block gate, whose notice is sent
\* without being awaited
SaveTouch(w) ==
  UNION { IF ~r.ok THEN {Throw(r.w)}
          ELSE IF BlockedSender(r.w)
          THEN {Respond(FireSend(r.w, r.w.h.update.chat, "ban"), 200)}
          ELSE {Goto(r.w, "getChannelUrl")} :
            r \in SaveBotUser(w) }

\* lines 76-79: getChannelUrl
ChannelUrlOf(rows, token) ==
  LET found == ChannelUrlsWith(rows, token) IN
  IF found = {} \/ (CHOOSE r \in found : TRUE).url = <<>>
  THEN DefaultChannelUrl
  ELSE (CHOOSE r \in found : TRUE).url

\* an admin panel that answers a text it does not know
AdminPanelActionAnswering(w) ==
  LET text == w.h.update.text
      chat == w.h.update.chat
  IN  IF text = LblStatistics THEN WithScript(w, <<OpSend(chat, "stats")>>)
      ELSE IF text = LblBroadcast THEN Goto(w, "countJoined")
      ELSE IF text = LblSetChannelUrl
      THEN WithScript(w, ReplyAndMove(chat, "channelPrompt",
                                      "awaiting_channel"))
      ELSE IF text = LblBlock
      THEN WithScript(w, ReplyAndMove(chat, "blockPrompt", "awaiting_block"))
      ELSE IF text = LblUnlock
      THEN WithScript(w, ReplyAndMove(chat, "unlockPrompt",
                                      "awaiting_unlock"))
      ELSE IF text = LblBack
      THEN WithScript(w, ReplyAndMove(chat, "backToNormal", "none"))
      ELSE WithScript(w, <<OpSend(chat, "unknownLabel")>>)

\* lines 238-283: the owner's message in admin_panel
AdminPanelAction(w) ==
  LET text == w.h.update.text
      chat == w.h.update.chat
  IN  IF text = LblStatistics THEN WithScript(w, <<OpSend(chat, "stats")>>)
      ELSE IF text = LblBroadcast THEN Goto(w, "countJoined")
      ELSE IF text = LblSetChannelUrl
      THEN WithScript(w, ReplyAndMove(chat, "channelPrompt",
                                      "awaiting_channel"))
      ELSE IF text = LblBlock
      THEN WithScript(w, ReplyAndMove(chat, "blockPrompt", "awaiting_block"))
      ELSE IF text = LblUnlock
      THEN WithScript(w, ReplyAndMove(chat, "unlockPrompt",
                                      "awaiting_unlock"))
      ELSE IF text = LblBack
      THEN WithScript(w, ReplyAndMove(chat, "backToNormal", "none"))
      ELSE WithScript(w, <<>>)

\* a Cancel branch that leaves the admin flow altogether
CancelActionToNone(w, kind) ==
  WithScript(w, ReplyAndMove(w.h.update.chat, kind, "none") \o <<OpReturn>>)

\* the Cancel branch of each awaiting_* state, which ends in "return;"
CancelAction(w, kind) ==
  WithScript(w, ReplyAndMove(w.h.update.chat, kind, "admin_panel")
                \o <<OpReturn>>)

\* lines 287-296: the owner's message in awaiting_broadcast
AwaitingBroadcastAction(w) ==
  IF w.h.update.text = LblCancel THEN CancelAction(w, "broadcastCancelled")
  ELSE Goto(w, "findTargets")

\* lines 309-335: the owner's message in awaiting_channel; text.trim() of a
\* message without text is a TypeError
AwaitingChannelAction(w) ==
  LET text == w.h.update.text
      correctedUrl == CorrectedUrl(text)
  IN  IF text = LblCancel THEN CancelAction(w, "channelCancelled")
      ELSE IF text = NoText THEN Throw(w)
      ELSE IF ~UrlRegexTest(correctedUrl)
      THEN WithScript(w, <<OpSend(w.h.update.chat, "invalidUrl"), OpReturn>>)
      ELSE [w EXCEPT !.h.pc = "upsertChannel", !.h.url = correctedUrl]

\* lines 343-362: the owner's message in awaiting_block
AwaitingBlockAction(w) ==
  LET text == w.h.update.text
      chat == w.h.update.chat
      targetUserId == Trim(text)
  IN  IF text = LblCancel THEN CancelAction(w, "blockCancelled")
      ELSE IF text = NoText THEN Throw(w)
      ELSE IF ~IsNumericId(targetUserId)
      THEN WithScript(w, <<OpSend(chat, "invalidUserId"), OpReturn>>)
      ELSE IF targetUserId = w.h.update.from
      THEN WithScript(w, <<OpSend(chat, "cannotBlockSelf"), OpReturn>>)
      ELSE [w EXCEPT !.h.pc = "findTarget", !.h.target = targetUserId,
                     !.h.blockTo = TRUE]

\* lines 377-391: the owner's message in awaiting_unlock
AwaitingUnlockAction(w) ==
  LET text == w.h.update.text
      targetUserId == Trim(text)
  IN  IF text = LblCancel THEN CancelAction(w, "unlockCancelled")
      ELSE IF text = NoText THEN Throw(w)
      ELSE IF ~IsNumericId(targetUserId)
      THEN WithScript(w, <<OpSend(w.h.update.chat, "invalidUserId"),
                           OpReturn>>)
      ELSE [w EXCEPT !.h.pc = "findTarget", !.h.target = targetUserId,
                     !.h.blockTo = FALSE]

\* the same chain with an echo that does not ask for hasJoined
MessageActionEchoingAll(w) ==
  LET u == w.h.update
      doc == w.h.doc
      isOwner == u.from = w.h.creatorId
  IN  IF u.text = CmdStart
      THEN WithScript(w, <<OpSend(u.chat, IF doc.hasJoined THEN "welcome"
                                          ELSE "joinGate"),
                           OpSet("userStep", "none"),
                           OpSet("adminState", "none"), OpSave>>)
      ELSE IF u.text = CmdPanel /\ isOwner
      THEN WithScript(w, ReplyAndMove(u.chat, "adminPanel", "admin_panel"))
      ELSE IF isOwner /\ doc.adminState = "admin_panel"
      THEN AdminPanelAction(w)
      ELSE IF isOwner /\ doc.adminState = "awaiting_broadcast"
      THEN AwaitingBroadcastAction(w)
      ELSE IF isOwner /\ doc.adminState = "awaiting_channel"
      THEN AwaitingChannelAction(w)
      ELSE IF isOwner /\ doc.adminState = "awaiting_block"
      THEN AwaitingBlockAction(w)
      ELSE IF isOwner /\ doc.adminState = "awaiting_unlock"
      THEN AwaitingUnlockAction(w)
      ELSE IF doc.adminState = "none"
              /\ u.text # CmdStart /\ u.text # CmdPanel
      THEN WithScript(w, <<OpSend(u.chat, SendMethod(u.content))>>)
      ELSE WithScript(w, <<>>)

\* lines 204-426: the if/else chain over update.message
MessageAction(w) ==
  LET u == w.h.update
      doc == w.h.doc
      isOwner == u.from = w.h.creatorId
  IN  IF u.text = CmdStart
      THEN WithScript(w, <<OpSend(u.chat, IF doc.hasJoined THEN "welcome"
                                          ELSE "joinGate"),
                           OpSet("userStep", "none"),
                           OpSet("adminState", "none"), OpSave>>)
      ELSE IF u.text = CmdPanel /\ isOwner
      THEN WithScript(w, ReplyAndMove(u.chat, "adminPanel", "admin_panel"))
      ELSE IF isOwner /\ doc.adminState = "admin_panel"
      THEN AdminPanelAction(w)
      ELSE IF isOwner /\ doc.adminState = "awaiting_broadcast"
      THEN AwaitingBroadcastAction(w)
      ELSE IF isOwner /\ doc.adminState = "awaiting_channel"
      THEN AwaitingChannelAction(w)
      ELSE IF isOwner /\ doc.adminState = "awaiting_block"
      THEN AwaitingBlockAction(w)
      ELSE IF isOwner /\ doc.adminState = "awaiting_unlock"
      THEN AwaitingUnlockAction(w)
      ELSE IF doc.hasJoined /\ doc.adminState = "none"
              /\ u.text # CmdStart /\ u.text # CmdPanel
      THEN WithScript(w, <<OpSend(u.chat, SendMethod(u.content))>>)
      ELSE WithScript(w, <<>>)

\* lines 428-436: the "joined" callback
JoinedAction(w) ==
  LET u == w.h.update IN
  IF u.kind = "callback" /\ u.data = "joined"
  THEN WithScript(SetDoc(w, "hasJoined", TRUE),
                  <<OpSave, OpSend(u.from, "answerCallback"),
                    OpSend(u.chat, "welcome")>>)
  ELSE WithScript(w, <<>>)

\* lines 201-204: getChannelUrl, then the message or the callback
GetChannelUrl(w) ==
  LET w1 == [w EXCEPT !.h.channelUrl =
                         ChannelUrlOf(w.channelUrls, w.h.update.token)]
  IN  IF w.h.update.kind = "message" THEN {MessageAction(w1)}
      ELSE {JoinedAction(w1)}

\* BotUser.countDocuments({ botToken, hasJoined: true })
JoinedCount(rows, token) ==
  Cardinality({r \in rows : r.botToken = token /\ r.hasJoined})

\* lines 247-254: the Broadcast label
CountJoined(w) ==
  LET chat == w.h.update.chat IN
  IF JoinedCount(w.botUsers, w.h.update.token) = 0
  THEN {WithScript(w, <<OpSend(chat, "noUsers")>>)}
  ELSE {WithScript(w, ReplyAndMove(chat, "broadcastPrompt",
                                   "awaiting_broadcast"))}

\* the rows of a set in the order of their _id (the order find() returns)
RECURSIVE InOrder(_)
InOrder(rows) ==
  IF rows = {} THEN <<>>
  ELSE <<First(rows)>> \o InOrder(rows \ {First(rows)})

UserIds(rowSeq) == [i \in 1..Len(rowSeq) |-> rowSeq[i].userId]

\* BotUser.find({ botToken, hasJoined: true, isBlocked: false })
BroadcastTargets(rows, token) ==
  UserIds(InOrder({r \in rows : r.botToken = token /\ r.hasJoined
                                  /\ ~r.isBlocked}))

\* lines 298-305: the report after broadcastMessage has returned
AfterBroadcast(w) ==
  WithScript(w, ReplyAndMove(w.h.update.chat, "broadcastDone", "admin_panel"))

\* lines 295-296: BotUser.find, then the call of broadcastMessage
FindTargets(w) ==
  LET b == NewBroadcast(BroadcastTargets(w.botUsers, w.h.update.token),
                        w.h.update.from, w.h.update.content)
      w1 == [w EXCEPT !.h.b = b]
  IN  IF BroadcastFinished(b) THEN {AfterBroadcast(w1)}
      ELSE {Goto(w1, "broadcastSend")}

\* one awaited send of broadcastMessage, inside the handler
BroadcastSend(w) ==
  { LET b == BroadcastStep(w.h.b, ok)
        w1 == [w EXCEPT !.h.b = b,
                        !.h.out = Append(@, b.log[Len(b.log)])]
    IN  IF BroadcastFinished(b) THEN AfterBroadcast(w1)
        ELSE Goto(w1, "broadcastSend") :
      ok \in BOOLEAN }

\* ChannelUrl.findOneAndUpdate({botToken}, {botToken, url}, {upsert: true})
UpsertChannelUrl(rows, token, url) ==
  LET found == ChannelUrlsWith(rows, token) IN
  IF found = {} THEN rows \cup {[botToken |-> token, url |-> url]}
  ELSE LET r == CHOOSE q \in found : TRUE IN
       (rows \ {r}) \cup {[r EXCEPT !.url = url]}

\* lines 331-339
UpsertChannel(w) ==
  {WithScript([w EXCEPT !.channelUrls =
                          UpsertChannelUrl(@, w.h.update.token, w.h.url)],
              ReplyAndMove(w.h.update.chat, "channelSet", "admin_panel"))}

\* lines 362-368 and 391-397: BotUser.findOne for the target
FindTarget(w) ==
  IF BotUsersWith(w.botUsers, w.h.update.token, w.h.target) = {}
  THEN {WithScript(w, ReplyAndMove(w.h.update.chat, "userNotFound",
                                   "admin_panel") \o <<OpReturn>>)}
  ELSE {Goto(w, "updateBlock")}

\* an update whose filter names the user and not the bot
SetBlockedInEveryBot(rows, token, user, v) ==
  {IF r.userId = user THEN [r EXCEPT !.isBlocked = v] ELSE r : r \in rows}

\* BotUser.findOneAndUpdate({ botToken, userId }, { isBlocked })
SetBlocked(rows, token, user, v) ==
  LET found == BotUsersWith(rows, token, user) IN
  IF found = {} THEN rows
  ELSE (rows \ {First(found)}) \cup {[First(found) EXCEPT !.isBlocked = v]}

\* lines 370-373 and 399-402
UpdateBlock(w) ==
  {WithScript([w EXCEPT !.botUsers =
                          SetBlocked(@, w.h.update.token, w.h.target,
                                     w.h.blockTo)],
              ReplyAndMove(w.h.update.chat,
                           IF w.h.blockTo THEN "blocked" ELSE "unblocked",
                           "admin_panel"))}

\* one step of the created-bot handler: the successor worlds
CreatedStep(w) ==
  CASE w.h.pc = "findBot" -> FindBot(w)
    [] w.h.pc = "findUser" -> FindUser(w)
    [] w.h.pc = "createUser" -> CreateUser(w)
    [] w.h.pc = "notify" -> Notify(w)
    [] w.h.pc = "saveTouch" -> SaveTouch(w)
    [] w.h.pc = "getChannelUrl" -> GetChannelUrl(w)
    [] w.h.pc = "script" -> ScriptStep(w)
    [] w.h.pc = "countJoined" -> CountJoined(w)
    [] w.h.pc = "findTargets" -> FindTargets(w)
    [] w.h.pc = "broadcastSend" -> BroadcastSend(w)
    [] w.h.pc = "upsertChannel" -> UpsertChannel(w)
    [] w.h.pc = "findTarget" -> FindTarget(w)
    [] w.h.pc = "updateBlock" -> UpdateBlock(w)
    [] OTHER -> {}

\* the handler run to its end without another request in between
RECURSIVE CreatedRun(_)
CreatedRun(w) ==
  IF w.h.pc = "done" THEN {w}
  ELSE UNION {CreatedRun(w2) : w2 \in CreatedStep(w)}

-----------------------------------------------------------------------------
(* The maker bot: the middlewares of maker.js in their order of             *)
(* registration.  ctx.reply is never awaited there.                         *)

\* ctx.message of a text message to the maker bot, or another update
MakerUpdate(from, content, text) ==
  [from |-> from, content |-> content, text |-> text]

NewMakerHandler(update) ==
  [pc |-> "route", update |-> update, user |-> NoUser, dirty |-> {},
   script |-> <<>>, resp |-> 0, out |-> <<>>, created |-> FALSE,
   b |-> NoBroadcast, target |-> NoId, blockTo |-> FALSE, token |-> NoToken,
   queue |-> <<>>, totalSuccess |-> 0, totalFail |-> 0, route |-> "none",
   flow |-> "none", deleted |-> <<>>, visited |-> <<>>]

\* ctx.reply(...)
Reply(w, kind) == FireSend(w, w.h.update.from, kind)

\* the end of a middleware: handleUpdate resolves and the maker's Vercel
\* handler answers res.status(200)
MakerEnd(w) == [w EXCEPT !.h.pc = "done", !.h.resp = 200, !.h.script = <<>>]

\* a catch block of a maker middleware: the error is logged and reported
MakerCatch(w, kind) == MakerEnd(Reply(w, kind))

OpReply(kind) == [op |-> "reply", kind |-> kind]
OpUpdateUser(fields) == [op |-> "updateUser", fields |-> fields]

\* User.findOneAndUpdate({ userId }, fields)
UpdateUser(rows, user, fields) ==
  LET found == UsersWith(rows, user) IN
  IF found = {} THEN rows
  ELSE (rows \ {First(found)}) \cup
       {[f \in DOMAIN First(found) |->
           IF f \in DOMAIN fields THEN fields[f] ELSE First(found)[f]]}

\* runs the replies up to the next awaited statement
RECURSIVE MakerRunSync(_)
MakerRunSync(w) ==
  IF w.h.script = <<>> THEN MakerEnd(w)
  ELSE LET o == Head(w.h.script) IN
       IF o.op = "reply"
       THEN MakerRunSync([Reply(w, o.kind) EXCEPT !.h.script = Tail(@)])
       ELSE IF o.op = "return" THEN MakerEnd(w)
       ELSE Goto(w, "script")

MakerWithScript(w, script) == MakerRunSync([w EXCEPT !.h.script = script])

\* the awaited User.findOneAndUpdate at the head of the script
MakerScriptStep(w) ==
  LET o == Head(w.h.script) IN
  {MakerRunSync([w EXCEPT !.users = UpdateUser(@, w.h.update.from, o.fields),
                          !.h.script = Tail(@)])}

\* "ctx.reply(kind, keyboard); await User.findOneAndUpdate({userId}, fields)"
ReplyAndUpdate(kind, fields) == <<OpReply(kind), OpUpdateUser(fields)>>

ToAdminPanel == [adminState |-> "admin_panel"]
StepNone == [step |-> "none"]
BackToMenu == [step |-> "none", adminState |-> "none"]

\* Telegraf's command matching: the text is the command, alone or followed
\* by arguments
IsCommand(text, cmd) ==
  /\ Prefix(text, Len(cmd)) = cmd
  /\ (Len(text) = Len(cmd) \/ text[Len(cmd) + 1] \in Whitespace)

\* the middlewares in their order of registration (lines 671-1113)
Middlewares == <<"start", "hearsCreate", "hearsDelete", "hearsMyBots",
                 "panel", "text", "clear">>

\* the trigger of a middleware
Matches(m, text) ==
  CASE m = "start" -> IsCommand(text, CmdStart)
    [] m = "hearsCreate" -> text = LblCreateBot
    [] m = "hearsDelete" -> text = LblDeleteBot
    [] m = "hearsMyBots" -> text = LblMyBots
    [] m = "panel" -> IsCommand(text, CmdPanel)
    [] m = "text" -> TRUE
    [] m = "clear" -> IsCommand(text, CmdClear)

\* the middleware that handles a text message: the first one registered
\* that matches; none of them passes the update on
Route(text) ==
  Middlewares[CHOOSE i \in 1..Len(Middlewares) :
                /\ Matches(Middlewares[i], text)
                /\ \A j \in 1..(i - 1) : ~Matches(Middlewares[j], text)]

\* the routing with a command('panel') that does not compare the sender
\* with OWNER_ID
MakerRouteOpenPanel(w) ==
  LET u == w.h.update
      r == Route(u.text)
  IN  IF u.content # "text" THEN {MakerEnd(w)}
      ELSE IF r = "panel" THEN {Goto(w, "panelUpdate")}
      ELSE IF r = "clear"
      THEN IF u.from # OWNER_ID
           THEN {MakerEnd(Reply(w, "notAuthorized"))}
           ELSE {Goto(w, "clear")}
      ELSE {[w EXCEPT !.h.pc = "findUser", !.h.route = r]}

\* an update enters the middleware chain; up to the first awaited call
MakerRoute(w) ==
  LET u == w.h.update
      r == Route(u.text)
  IN  IF u.content # "text" THEN {MakerEnd(w)}
      ELSE IF r = "panel"
      THEN IF u.from # OWNER_ID
           THEN {MakerEnd(Reply(w, "notAuthorized"))}
           ELSE {Goto(w, "panelUpdate")}
      ELSE IF r = "clear"
      THEN IF u.from # OWNER_ID
           THEN {MakerEnd(Reply(w, "notAuthorized"))}
           ELSE {Goto(w, "clear")}
      ELSE {[w EXCEPT !.h.pc = "findUser", !.h.route = r]}

\* lines 781-795: makerBot.command('panel') of the owner
PanelUpdate(w) ==
  {MakerEnd(Reply([w EXCEPT !.users =
                              UpdateUser(@, w.h.update.from,
                                         [step |-> "none",
                                          adminState |-> "admin_panel"])],
                  "ownerPanel"))}

\* "if (user && user.isBlocked) { ctx.reply(ban); return; }"
MakerBan(w) == MakerEnd(Reply(w, "ban"))

\* lines 696, 710: the first-start notification is due, or the welcome
AfterUser(w) ==
  IF w.h.user.isFirstStart THEN Goto(w, "notifyOwner")
  ELSE MakerEnd(Reply(w, "welcome"))

\* lines 816-888: a text of the owner in the owner admin panel
OwnerPanelAction(w) ==
  LET x == w.h.update.text IN
  IF x = LblStatistics THEN MakerEnd(Reply(w, "stats"))
  ELSE IF x = LblBroadcastUser THEN Goto(w, "countUsers")
  ELSE IF x = LblBroadcastSub THEN Goto(w, "countSubs")
  ELSE IF x = LblBlock
  THEN MakerWithScript(w, ReplyAndUpdate("blockPrompt",
                                         [adminState |-> "awaiting_block"]))
  ELSE IF x = LblUnlock
  THEN MakerWithScript(w, ReplyAndUpdate("unlockPrompt",
                                         [adminState |-> "awaiting_unlock"]))
  ELSE IF x = LblRemoveBot
  THEN MakerWithScript(w, ReplyAndUpdate("removePrompt",
                                    [adminState |-> "awaiting_remove_bot"]))
  ELSE IF x = LblBack
  THEN MakerWithScript(w, ReplyAndUpdate("backToMenu", BackToMenu))
  ELSE MakerEnd(w)

\* "if (text === 'Cancel') { ctx.reply(...); await User.findOneAndUpdate(
\* { userId }, { adminState: 'admin_panel' }); return; }"
OwnerCancel(w, kind) == MakerWithScript(w, ReplyAndUpdate(kind, ToAdminPanel))

\* the same input handling without the refusal of the owner's own id
OwnerBlockInputAnyId(w, to) ==
  LET x == w.h.update.text
      id == Trim(x)
  IN  IF x = LblCancel
      THEN OwnerCancel(w, IF to THEN "blockCancelled" ELSE "unlockCancelled")
      ELSE IF ~IsNumericId(id) THEN MakerEnd(Reply(w, "invalidUserId"))
      ELSE [w EXCEPT !.h.pc = "findTarget", !.h.target = id,
                     !.h.blockTo = to]

\* lines 930-984: the id typed by the owner to block or to unblock a user
OwnerBlockInput(w, to) ==
  LET x == w.h.update.text
      id == Trim(x)
  IN  IF x = LblCancel
      THEN OwnerCancel(w, IF to THEN "blockCancelled" ELSE "unlockCancelled")
      ELSE IF ~IsNumericId(id) THEN MakerEnd(Reply(w, "invalidUserId"))
      ELSE IF to /\ id = OWNER_ID THEN MakerEnd(Reply(w, "cannotBlockSelf"))
      ELSE [w EXCEPT !.h.pc = "findTarget", !.h.target = id,
                     !.h.blockTo = to]

\* lines 987-994, 1062-1069: the token typed to remove or to delete a bot;
\* the owner's Remove Bot trims it, Delete Bot does not
TokenInput(w, flow) ==
  LET x == w.h.update.text IN
  IF flow = "remove" /\ x = LblCancel
  THEN OwnerCancel(w, "removeCancelled")
  ELSE IF flow = "delete" /\ x = LblPlainBack
  THEN MakerWithScript(w, ReplyAndUpdate("backToMenu", BackToMenu))
  ELSE [w EXCEPT !.h.pc = "findBotToken", !.h.flow = flow,
                 !.h.token = IF flow = "remove" THEN Trim(x) ELSE x]

\* lines 816-1086: the if/else chain of on('text') after the block gate
TextChain(w) ==
  LET u == w.h.update
      x == u.text
      owner == u.from = OWNER_ID
      st == w.h.user.adminState
  IN  IF owner /\ st = "admin_panel" THEN OwnerPanelAction(w)
      ELSE IF owner /\ st = "awaiting_broadcast_user"
      THEN IF x = LblCancel THEN OwnerCancel(w, "broadcastCancelled")
           ELSE Goto(w, "findTargets")
      ELSE IF owner /\ st = "awaiting_broadcast_sub"
      THEN IF x = LblCancel THEN OwnerCancel(w, "broadcastCancelled")
           ELSE Goto(w, "aggregate")
      ELSE IF owner /\ st = "awaiting_block" THEN OwnerBlockInput(w, TRUE)
      ELSE IF owner /\ st = "awaiting_unlock" THEN OwnerBlockInput(w, FALSE)
      ELSE IF owner /\ st = "awaiting_remove_bot" THEN TokenInput(w, "remove")
      ELSE IF w.h.user.step = "create_bot"
      THEN IF x = LblPlainBack
           THEN MakerWithScript(w, ReplyAndUpdate("backToMenu", BackToMenu))
           ELSE [w EXCEPT !.h.pc = "validate", !.h.token = x]
      ELSE IF w.h.user.step = "delete_bot" THEN TokenInput(w, "delete")
      ELSE IF x = LblPlainBack
      THEN MakerWithScript(w, ReplyAndUpdate("backToMenu", BackToMenu))
      ELSE MakerEnd(w)

\* "await User.findOne({ userId })" of every middleware but command panel,
\* and the code after it up to the next awaited call
MakerFindUser(w) ==
  LET found == UsersWith(w.users, w.h.update.from)
      w1 == IF found = {} THEN w ELSE [w EXCEPT !.h.user = First(found)]
      r == w.h.route
  IN  IF r = "text" /\ found = {} THEN {MakerEnd(Reply(w, "pleaseStart"))}
      ELSE IF found # {} /\ w1.h.user.isBlocked THEN {MakerBan(w1)}
      ELSE IF r = "start"
      THEN IF found = {} THEN {Goto(w, "createUser")} ELSE {AfterUser(w1)}
      ELSE IF r = "hearsCreate"
      THEN {MakerWithScript(w1, ReplyAndUpdate("tokenPrompt",
                                               [step |-> "create_bot"]))}
      ELSE IF r = "hearsDelete"
      THEN {MakerWithScript(w1, ReplyAndUpdate("deletePrompt",
                                               [step |-> "delete_bot"]))}
      ELSE IF r = "hearsMyBots" THEN {MakerEnd(Reply(w1, "myBots"))}
      ELSE {TextChain(w1)}

\* lines 684-692: User.create; userId is unique
MakerCreateUser(w) ==
  IF UsersWith(w.users, w.h.update.from) # {}
  THEN {MakerCatch(w, "error")}
  ELSE LET row == NewUser(FreshId(w.users), w.h.update.from) IN
       {AfterUser([w EXCEPT !.users = @ \cup {row}, !.h.user = row,
                            !.h.created = TRUE])}

\* lines 697-706: the notification of a first start to the owner
MakerNotifyOwner(w) ==
  { IF s.ok THEN [s.w EXCEPT !.h.pc = "saveUser",
                             !.h.user.isFirstStart = FALSE]
    ELSE MakerCatch(s.w, "error") :
      s \in AwaitSend(w, OWNER_ID, "newUser") }

\* line 707: user.save() writes isFirstStart to the row of the document
MakerSaveUser(w) ==
  LET rows == {r \in w.users : r.id = w.h.user.id} IN
  IF rows = {} THEN {MakerCatch(w, "error")}
  ELSE {MakerEnd(Reply([w EXCEPT !.users = (@ \ rows) \cup
                          {[r EXCEPT !.isFirstStart = FALSE] : r \in rows}],
                       "welcome"))}

\* lines 1103-1108: the four deleteMany of command clear
MakerClear(w) ==
  {MakerEnd(Reply([w EXCEPT !.bots = {}, !.botUsers = {},
                            !.channelUrls = {}, !.users = {}], "cleared"))}

\* User.find({ isBlocked: false })
MakerTargets(rows) == UserIds(InOrder({r \in rows : ~r.isBlocked}))

\* lines 859-865: Broadcast User counts the users that are not blocked
CountUsers(w) ==
  IF MakerTargets(w.users) = <<>>
  THEN {MakerEnd(Reply(w, "noUsers"))}
  ELSE {MakerWithScript(w, ReplyAndUpdate("broadcastPrompt",
                             [adminState |-> "awaiting_broadcast_user"]))}

\* BotUser.find({ hasJoined: true, isBlocked: false }).distinct('userId')
SubUsers(rows) == {r.userId : r \in {q \in rows : q.hasJoined /\ ~q.isBlocked}}

\* lines 867-874: Broadcast Sub counts the joined users of the created bots
CountSubs(w) ==
  IF SubUsers(w.botUsers) = {}
  THEN {MakerEnd(Reply(w, "noSubUsers"))}
  ELSE {MakerWithScript(w, ReplyAndUpdate("broadcastSubPrompt",
                             [adminState |-> "awaiting_broadcast_sub"]))}

\* lines 901-907: the report of Broadcast User
AfterUserBroadcast(w) ==
  MakerWithScript(w, ReplyAndUpdate("broadcastDone", ToAdminPanel))

\* lines 898-899: User.find, then the call of broadcastMessage
MakerFindTargets(w) ==
  LET b == NewBroadcast(MakerTargets(w.users), w.h.update.from, "text")
      w1 == [w EXCEPT !.h.b = b]
  IN  IF BroadcastFinished(b) THEN {AfterUserBroadcast(w1)}
      ELSE {Goto(w1, "broadcastSend")}

\* one awaited send of broadcastMessage, called by Broadcast User
MakerBroadcastSend(w) ==
  { LET b == BroadcastStep(w.h.b, ok)
        w1 == [w EXCEPT !.h.b = b,
                        !.h.out = Append(@, b.log[Len(b.log)])]
    IN  IF BroadcastFinished(b) THEN AfterUserBroadcast(w1)
        ELSE Goto(w1, "broadcastSend") :
      ok \in BOOLEAN }

\* the number of BotUser rows of a bot ($lookup, $size)
UserCount(rows, token) == Cardinality({r \in rows : r.botToken = token})

\* the bots in every order, as an aggregate without the $sort stage may
\* return them
SortedBotsUnsorted(bs, rows) ==
  {q \in [1..Cardinality(bs) -> {b.token : b \in bs}] :
     \A i, j \in DOMAIN q : i # j => q[i] # q[j]}

\* the orders { $sort: { userCount: -1 } } may return the bots in
SortedBots(bs, rows) ==
  {q \in [1..Cardinality(bs) -> {b.token : b \in bs}] :
     /\ \A i, j \in DOMAIN q : i # j => q[i] # q[j]
     /\ \A i, j \in DOMAIN q :
          i < j => UserCount(rows, q[i]) >= UserCount(rows, q[j])}

\* lines 920-926: the report of Broadcast Sub
AfterSubBroadcast(w) ==
  MakerWithScript(w, ReplyAndUpdate("broadcastSubDone", ToAdminPanel))

\* lines 622-637: the aggregate of broadcastSubMessage
Aggregate(w) ==
  { IF q = <<>> THEN AfterSubBroadcast(w)
    ELSE [w EXCEPT !.h.pc = "subFind", !.h.queue = q] :
      q \in SortedBots(w.bots, w.botUsers) }

\* lines 650, 639: the pause after a bot, then the next bot or the return
SubNext(w) ==
  LET w1 == [w EXCEPT !.h.queue = Tail(@)] IN
  IF w1.h.queue = <<>> THEN AfterSubBroadcast(w1) ELSE Goto(w1, "subFind")

\* lines 645-647: broadcastMessage has returned its two counts for the bot
\* at the head of the queue, and they are added to the totals
SubReturn(w) ==
  SubNext([w EXCEPT !.h.totalSuccess = @ + w.h.b.successCount,
                    !.h.totalFail = @ + w.h.b.failCount,
                    !.h.visited = Append(@, [token |-> Head(w.h.queue),
                                             successCount |-> w.h.b.successCount,
                                             failCount |-> w.h.b.failCount])])

\* lines 640-645: the recipients of the next bot; a bot without recipients
\* is passed over
SubFind(w) ==
  LET b == NewBroadcast(BroadcastTargets(w.botUsers, Head(w.h.queue)),
                        w.h.update.from, "text")
      w1 == [w EXCEPT !.h.b = b]
  IN  IF b.targets = <<>> THEN {SubNext(w)}
      ELSE IF BroadcastFinished(b) THEN {SubReturn(w1)}
      ELSE {Goto(w1, "subSend")}

\* one awaited send of broadcastMessage, called by broadcastSubMessage
SubSend(w) ==
  { LET b == BroadcastStep(w.h.b, ok)
        w1 == [w EXCEPT !.h.b = b,
                        !.h.out = Append(@, b.log[Len(b.log)])]
    IN  IF BroadcastFinished(b) THEN SubReturn(w1)
        ELSE Goto(w1, "subSend") :
      ok \in BOOLEAN }

\* lines 948-953, 974-979: User.findOne({ userId: targetUserId })
MakerFindTarget(w) ==
  IF UsersWith(w.users, w.h.target) = {}
  THEN {MakerWithScript(w, ReplyAndUpdate("userNotFound", ToAdminPanel))}
  ELSE {Goto(w, "blockTarget")}

\* lines 955-957, 981-983: the flag is written, then the owner is told
BlockTarget(w) ==
  {MakerWithScript([w EXCEPT !.users =
                       UpdateUser(@, w.h.target,
                                  [isBlocked |-> w.h.blockTo])],
                   ReplyAndUpdate(IF w.h.blockTo THEN "blocked"
                                  ELSE "unblocked", ToAdminPanel))}

\* the end of the two flows that delete a bot
AfterDelete(w) ==
  IF w.h.flow = "remove"
  THEN MakerWithScript(w, ReplyAndUpdate("botRemoved", ToAdminPanel))
  ELSE MakerWithScript(w, ReplyAndUpdate("botDeleted", StepNone))

\* lines 995-1000, 1069-1074: Bot.findOne({ token })
FindBotToken(w) ==
  IF BotsWith(w.bots, w.h.token) = {}
  THEN {IF w.h.flow = "remove"
        THEN MakerWithScript(w, ReplyAndUpdate("tokenNotFound", ToAdminPanel))
        ELSE MakerWithScript(w, ReplyAndUpdate("tokenNotFound", StepNone))}
  ELSE {Goto(w, "deleteWebhook")}

\* a deleteWebhook whose failure would reach the catch block of on('text')
DeleteWebhookThrowing(w) ==
  { IF ok THEN [w EXCEPT !.webhooks = @ \ {w.h.token},
                         !.h.deleted = Append(@, "webhook"),
                         !.h.pc = "deleteBot"]
    ELSE MakerCatch([w EXCEPT !.h.deleted = Append(@, "webhookFailed")],
                    "error") : ok \in BOOLEAN }

\* lines 572-580: deleteWebhook(token) removes the webhook or fails, and
\* returns in both cases
DeleteWebhook(w) ==
  { [w EXCEPT !.webhooks = IF ok THEN @ \ {w.h.token} ELSE @,
              !.h.deleted = Append(@, IF ok THEN "webhook" ELSE "webhookFailed"),
              !.h.pc = "deleteBot"] : ok \in BOOLEAN }

\* Bot.deleteOne({ token })
DeleteBot(w) ==
  {[w EXCEPT !.bots = IF BotsWith(@, w.h.token) = {} THEN @
                      ELSE @ \ {CHOOSE b \in BotsWith(@, w.h.token) : TRUE},
             !.h.deleted = Append(@, "bot"),
             !.h.pc = "deleteBotUsers"]}

\* a deletion that would leave the BotUser rows
DeleteBotUsersSkipped(w) ==
  {[w EXCEPT !.h.deleted = Append(@, "botUsers"),
             !.h.pc = "deleteChannelUrl"]}

\* BotUser.deleteMany({ botToken })
DeleteBotUsers(w) ==
  {[w EXCEPT !.botUsers = {r \in @ : r.botToken # w.h.token},
             !.h.deleted = Append(@, "botUsers"),
             !.h.pc = "deleteChannelUrl"]}

\* ChannelUrl.deleteOne({ botToken }), then the confirmation
DeleteChannelUrl(w) ==
  {AfterDelete([w EXCEPT
                  !.channelUrls =
                     IF ChannelUrlsWith(@, w.h.token) = {} THEN @
                     ELSE @ \ {CHOOSE r \in ChannelUrlsWith(@, w.h.token) :
                                 TRUE},
                  !.h.deleted = Append(@, "channelUrl")])}

\* the tokens for which Telegram's getMe answers ok
RealTokens == {TokA, TokB}

\* lines 549-557, 1019-1023: validateBotToken returns the bot, or null when
\* Telegram rejects the token or cannot be reached
Validate(w) ==
  { IF ok /\ w.h.token \in RealTokens THEN Goto(w, "findExisting")
    ELSE MakerEnd(Reply(w, "invalidToken")) : ok \in BOOLEAN }

\* the duplicate check whose failure leaves the user's step as it is
FindExistingKeepsStep(w) ==
  IF BotsWith(w.bots, w.h.token) # {}
  THEN {MakerEnd(Reply(w, "tokenInUse"))}
  ELSE {Goto(w, "setWebhook")}

\* lines 1025-1030: Bot.findOne({ token: text })
FindExisting(w) ==
  IF BotsWith(w.bots, w.h.token) # {}
  THEN {MakerWithScript(w, ReplyAndUpdate("tokenInUse", StepNone))}
  ELSE {Goto(w, "setWebhook")}

\* setWebhook whose failure does not end the creation
SetWebhookIgnored(w) ==
  { [w EXCEPT !.webhooks = IF ok THEN @ \cup {w.h.token} ELSE @,
              !.h.pc = "createBot"] : ok \in BOOLEAN }

\* lines 559-570, 1032-1037: setWebhook registers the webhook or fails
SetWebhook(w) ==
  { IF ok THEN [w EXCEPT !.webhooks = @ \cup {w.h.token},
                         !.h.pc = "createBot"]
    ELSE MakerWithScript(w, ReplyAndUpdate("setupFailed", StepNone)) :
      ok \in BOOLEAN }

\* Bot.create on a collection without the unique index on token
CreateBotNoIndex(w) ==
  {[w EXCEPT !.bots = @ \cup {BotRow(w.h.token, w.h.update.from)},
             !.h.created = TRUE, !.h.pc = "notifyBot"]}

\* lines 1040-1045: Bot.create; token is unique
CreateBot(w) ==
  IF BotsWith(w.bots, w.h.token) # {}
  THEN {MakerCatch(w, "error")}
  ELSE {[w EXCEPT !.bots = @ \cup {BotRow(w.h.token, w.h.update.from)},
                  !.h.created = TRUE, !.h.pc = "notifyBot"]}

\* lines 1047-1061: the notification of the new bot to the owner, then the
\* confirmation to the creator
NotifyBot(w) ==
  { IF s.ok THEN MakerWithScript(s.w, ReplyAndUpdate("botMade", StepNone))
    ELSE MakerCatch(s.w, "error") :
      s \in AwaitSend(w, OWNER_ID, "newBot") }

\* one step of a maker middleware: the awaited call it is suspended at and
\* the code after it up to the next awaited call
MakerStep(w) ==
  CASE w.h.pc = "route" -> MakerRoute(w)
    [] w.h.pc = "panelUpdate" -> PanelUpdate(w)
    [] w.h.pc = "clear" -> MakerClear(w)
    [] w.h.pc = "findUser" -> MakerFindUser(w)
    [] w.h.pc = "createUser" -> MakerCreateUser(w)
    [] w.h.pc = "notifyOwner" -> MakerNotifyOwner(w)
    [] w.h.pc = "saveUser" -> MakerSaveUser(w)
    [] w.h.pc = "script" -> MakerScriptStep(w)
    [] w.h.pc = "countUsers" -> CountUsers(w)
    [] w.h.pc = "countSubs" -> CountSubs(w)
    [] w.h.pc = "findTargets" -> MakerFindTargets(w)
    [] w.h.pc = "broadcastSend" -> MakerBroadcastSend(w)
    [] w.h.pc = "aggregate" -> Aggregate(w)
    [] w.h.pc = "subFind" -> SubFind(w)
    [] w.h.pc = "subSend" -> SubSend(w)
    [] w.h.pc = "findTarget" -> MakerFindTarget(w)
    [] w.h.pc = "blockTarget" -> BlockTarget(w)
    [] w.h.pc = "findBotToken" -> FindBotToken(w)
    [] w.h.pc = "deleteWebhook" -> DeleteWebhook(w)
    [] w.h.pc = "deleteBot" -> DeleteBot(w)
    [] w.h.pc = "deleteBotUsers" -> DeleteBotUsers(w)
    [] w.h.pc = "deleteChannelUrl" -> DeleteChannelUrl(w)
    [] w.h.pc = "validate" -> Validate(w)
    [] w.h.pc = "findExisting" -> FindExisting(w)
    [] w.h.pc = "setWebhook" -> SetWebhook(w)
    [] w.h.pc = "createBot" -> CreateBot(w)
    [] w.h.pc = "notifyBot" -> NotifyBot(w)
    [] OTHER -> {}

\* the middleware run to its end without another request in between
RECURSIVE MakerRun(_)
MakerRun(w) ==
  IF w.h.pc = "done" THEN {w}
  ELSE UNION {MakerRun(w2) : w2 \in MakerStep(w)}

-----------------------------------------------------------------------------
(* Inbound events of the created bots *)

MaxEvents == 2      \* inbound events per behaviour
MaxClock == 2       \* the clock's last second; the rows of Init are of second 0

\* message.text of the text messages sent to a created bot: the commands,
\* every label, the ids of the users and of nobody, a channel handle and a
\* text the URL pattern rejects
CreatedTexts ==
  {CmdStart, CmdPanel, LblStatistics, LblBroadcast, LblSetChannelUrl,
   LblBlock, LblUnlock, LblBack, LblCancel, U1, U2, U3, <<"9">>, UrlFoo,
   <<"/">>}

\* the users who write to the created bots; user 3 is a member who stays
\* silent
Senders == {U1, U2}

\* the updates a created bot's webhook receives (private chats: chat.id is
\* from.id), and requests that lack a token, a chat or a sender
CreatedUpdates ==
  {Update(t, "message", u, u, "text", x, "none") :
     t \in Tokens, u \in Senders, x \in CreatedTexts}
  \cup {Update(t, "message", u, u, "photo", NoText, "none") :
          t \in Tokens, u \in Senders}
  \cup {Update(t, "callback", u, u, "text", NoText, d) :
          t \in Tokens, u \in Senders, d \in {"joined", "other"}}
  \cup {Update(TokX, "message", U1, U1, "text", CmdStart, "none"),
        Update(NoToken, "message", U1, U1, "text", CmdStart, "none"),
        Update(TokA, "message", NoId, U1, "text", CmdStart, "none"),
        Update(TokA, "message", U1, NoId, "text", CmdStart, "none"),
        Update(TokA, "none", NoId, NoId, "text", NoText, "none")}

\* message.text of the text messages sent to the maker bot: the commands,
\* every label, ids, tokens (one with a space before it) and small talk
MakerTexts ==
  {CmdStart, CmdPanel, CmdClear, LblCreateBot, LblDeleteBot, LblMyBots,
   LblStatistics, LblBroadcastUser, LblBroadcastSub, LblBlock, LblUnlock,
   LblRemoveBot, LblBack, LblCancel, LblPlainBack, U1, U2, <<"9">>, TokA,
   <<" ">> \o TokB, TokX, TxtHello}

\* the updates the maker bot's webhook receives
MakerUpdates ==
  {MakerUpdate(u, "text", x) : u \in Users, x \in MakerTexts}
  \cup {MakerUpdate(u, "photo", NoText) : u \in Users}

\* bot A made by user 1, bot B made by user 2 (Bot.create of maker.js)
TwoBots == {BotRow(TokA, U1), BotRow(TokB, U2)}

\* the User rows of the two creators after their /start
StartedUsers ==
  {[NewUser(1, U1) EXCEPT !.isFirstStart = FALSE],
   [NewUser(2, U2) EXCEPT !.isFirstStart = FALSE]}

\* rows of bot A after its owner sent /panel and users 2 and 3 sent /start
\* and then pressed "Joined"
WarmBotUsers ==
  {[NewBotUser(1, TokA, U1, 0) EXCEPT !.isFirstStart = FALSE,
                                      !.adminState = "admin_panel"],
   [NewBotUser(2, TokA, U2, 0) EXCEPT !.isFirstStart = FALSE,
                                      !.hasJoined = TRUE],
   [NewBotUser(3, TokA, U3, 0) EXCEPT !.isFirstStart = FALSE,
                                      !.hasJoined = TRUE]}

\* rows of bot A when the notification of user 2's first contact failed,
\* user 3 joined, and the owner has then blocked both and pressed Block again
BlockedBotUsers ==
  {[NewBotUser(1, TokA, U1, 0) EXCEPT !.isFirstStart = FALSE,
                                      !.adminState = "awaiting_block"],
   [NewBotUser(2, TokA, U2, 0) EXCEPT !.isBlocked = TRUE],
   [NewBotUser(3, TokA, U3, 0) EXCEPT !.isFirstStart = FALSE,
                                      !.hasJoined = TRUE,
                                      !.isBlocked = TRUE]}

\* the User rows after the platform owner sent /panel
WarmUsers ==
  {IF r.userId = OWNER_ID THEN [r EXCEPT !.adminState = "admin_panel"] ELSE r :
     r \in StartedUsers}

\* the User rows after user 2 pressed Delete Bot and the owner blocked them
\* and pressed Block again
BlockedUsers ==
  {IF r.userId = U2 THEN [r EXCEPT !.isBlocked = TRUE, !.step = "delete_bot"]
   ELSE [r EXCEPT !.adminState = "awaiting_block"] : r \in StartedUsers}

Snapshot(bs, members, urls, us, hooks) ==
  [bots |-> bs, botUsers |-> members, channelUrls |-> urls, users |-> us,
   webhooks |-> hooks]

\* the stored states the behaviours start from: an empty platform, two new
\* bots, bot A in use, and bot A and the platform with blocked users
Snapshots ==
  {Snapshot({}, {}, {}, {}, {}),
   Snapshot(TwoBots, {}, {}, StartedUsers, Tokens),
   Snapshot(TwoBots, WarmBotUsers,
            {[botToken |-> TokA, url |-> UrlStoredFoo]}, WarmUsers, Tokens),
   Snapshot(TwoBots, BlockedBotUsers, {}, BlockedUsers, Tokens)}

NoLast == [kind |-> "none", h |-> IdleHandler]

\* a call of broadcastMessage and whether it has returned its two counts
Call(b, returned) == [b |-> b, returned |-> returned]
NoCall == Call(NoBroadcast, FALSE)

Slots == {1, 2}
AllIdle == [s \in Slots |-> IdleHandler]

\* a maker-bot invocation: its handler, and whether a Bot row of the text it
\* was sent existed when it started
Invocation(h, existed) == [h |-> h, existed |-> existed]
IdleMaker ==
  Invocation([NewMakerHandler(MakerUpdate(NoId, "text", NoText))
                EXCEPT !.pc = "idle"], FALSE)
MakersIdle == [s \in Slots |-> IdleMaker]

Init ==
  /\ \E s \in Snapshots :
       /\ bots = s.bots
       /\ botUsers = s.botUsers
       /\ channelUrls = s.channelUrls
       /\ users = s.users
       /\ webhooks = s.webhooks
  /\ now = 1
  /\ inflight = AllIdle
  /\ mk = MakersIdle
  /\ last = NoLast
  /\ events = 0
  /\ bc = NoCall

\* a second passes
Tick ==
  /\ now < MaxClock
  /\ now' = now + 1
  /\ UNCHANGED <<bots, botUsers, channelUrls, users, webhooks, inflight, mk,
                 last, events, bc>>

\* the stored state of a world becomes the state
Store(w) ==
  /\ bots' = w.bots
  /\ botUsers' = w.botUsers
  /\ channelUrls' = w.channelUrls
  /\ users' = w.users
  /\ webhooks' = w.webhooks

\* a created bot's webhook receives an update and handles it to the end
HandleCreated ==
  /\ events < MaxEvents
  /\ \E u \in CreatedUpdates :
       \E w \in CreatedRun(World(NewHandler(u), {})) :
         /\ Store(w)
         /\ last' = [kind |-> "created", h |-> w.h]
  /\ events' = events + 1
  /\ UNCHANGED <<now, inflight, mk, bc>>

\* the maker bot's webhook receives an update and handles it to the end
HandleMaker ==
  /\ events < MaxEvents
  /\ \E u \in MakerUpdates :
       \E w \in MakerRun(World(NewMakerHandler(u), {})) :
         /\ Store(w)
         /\ last' = [kind |-> "maker", h |-> w.h]
  /\ events' = events + 1
  /\ UNCHANGED <<now, inflight, mk, bc>>

Next == Tick \/ HandleCreated

\* requests to the created bots, handled one after another
Spec == Init /\ [][Next]_vars

NextMaker == HandleMaker

\* requests to the maker bot, handled one after another
SpecMaker == Init /\ [][NextMaker]_vars

NextAll == Tick \/ HandleCreated \/ HandleMaker

\* requests to the maker bot and to the created bots, one after another
SpecAll == Init /\ [][NextAll]_vars

-----------------------------------------------------------------------------
(* The owners block and unblock users, and bots are deleted and made again  *)

MaxBlockEvents == 4   \* inbound events per behaviour of SpecBlock

\* what is sent to the created bots: the panel, the two prompts and ids
BlockUpdates ==
  {Update(TokA, "message", u, u, "text", x, "none") :
     u \in Senders, x \in {CmdPanel, LblBlock, LblUnlock, U1, U2, TxtHello}}
  \cup {Update(TokB, "message", U2, U2, "text", x, "none") :
          x \in {CmdPanel, LblBlock, U2}}

\* what is sent to the maker bot: the same, and the deletion and the making
\* of bot A
MakerBlockUpdates ==
  {MakerUpdate(u, "text", x) :
     u \in {U1, U2},
     x \in {CmdPanel, LblBlock, LblUnlock, U1, U2, LblDeleteBot, LblCreateBot,
            LblRemoveBot, TokA}}

HandleCreatedBlock ==
  /\ events < MaxBlockEvents
  /\ \E u \in BlockUpdates :
       \E w \in CreatedRun(World(NewHandler(u), {})) :
         /\ Store(w)
         /\ last' = [kind |-> "created", h |-> w.h]
  /\ events' = events + 1
  /\ UNCHANGED <<now, inflight, mk, bc>>

HandleMakerBlock ==
  /\ events < MaxBlockEvents
  /\ \E u \in MakerBlockUpdates :
       \E w \in MakerRun(World(NewMakerHandler(u), {})) :
         /\ Store(w)
         /\ last' = [kind |-> "maker", h |-> w.h]
  /\ events' = events + 1
  /\ UNCHANGED <<now, inflight, mk, bc>>

NextBlock == HandleCreatedBlock \/ HandleMakerBlock

\* requests to the maker bot and to the created bots about blocking and
\* about the bots themselves, one after another
SpecBlock == Init /\ [][NextBlock]_vars

-----------------------------------------------------------------------------
(* Requests to the created bots that overlap: each serverless invocation    *)
(* runs from one awaited call to the next, and the store is shared.         *)

\* the updates of the overlapping requests
ConcUpdates ==
  {Update(TokA, "message", u, u, "text", x, "none") :
     u \in Senders, x \in {CmdStart, CmdPanel, U2, TxtHello}}
  \cup {Update(TokA, "callback", u, u, "text", NoText, "joined") :
          u \in Senders}
  \cup {Update(TokB, "message", U2, U2, "text", CmdStart, "none")}

\* the documents the other invocations hold
Held(s) == {inflight[t].doc : t \in Slots \ {s}}

\* an invocation starts
Receive(s) ==
  /\ events < MaxEvents
  /\ inflight[s].pc = "idle"
  /\ \E u \in ConcUpdates : inflight' = [inflight EXCEPT ![s] = NewHandler(u)]
  /\ events' = events + 1
  /\ UNCHANGED <<bots, botUsers, channelUrls, users, webhooks, now, mk, last,
                 bc>>

\* an invocation runs to its next awaited call or to its end
StepCreated(s) ==
  /\ inflight[s].pc \notin {"idle", "done"}
  /\ \E w \in CreatedStep(World(inflight[s], Held(s))) :
       /\ Store(w)
       /\ inflight' = [inflight EXCEPT ![s] = w.h]
  /\ UNCHANGED <<now, mk, last, events, bc>>

\* an invocation is over
Complete(s) ==
  /\ inflight[s].pc = "done"
  /\ last' = [kind |-> "created", h |-> inflight[s]]
  /\ inflight' = [inflight EXCEPT ![s] = IdleHandler]
  /\ UNCHANGED <<bots, botUsers, channelUrls, users, webhooks, now, mk,
                 events, bc>>

NextConc == \E s \in Slots : Receive(s) \/ StepCreated(s) \/ Complete(s)

\* requests to the created bots, interleaved at their awaited calls
SpecConc == Init /\ [][NextConc]_vars

-----------------------------------------------------------------------------
(* broadcastMessage on its own *)

MaxRecipients == 3   \* recipients of one call of broadcastMessage

\* the recipient lists: any order, with repetitions
RecipientLists ==
  UNION {[1..n -> Users] : n \in 0..MaxRecipients}

InitBroadcast ==
  /\ bots = {} /\ botUsers = {} /\ channelUrls = {} /\ users = {}
  /\ webhooks = {} /\ now = 0 /\ inflight = AllIdle /\ mk = MakersIdle
  /\ last = NoLast /\ events = 0
  /\ \E targets \in RecipientLists, adminId \in {U1, NoId},
        content \in {"text", "photo", "other"} :
       bc = Call(NewBroadcast(targets, adminId, content), FALSE)

\* the send to the next recipient that is not skipped resolves or rejects
BroadcastNext ==
  /\ ~bc.returned
  /\ ~BroadcastFinished(bc.b)
  /\ \E ok \in BOOLEAN : bc' = Call(BroadcastStep(bc.b, ok), FALSE)
  /\ UNCHANGED <<bots, botUsers, channelUrls, users, webhooks, now, inflight,
                 mk, last, events>>

\* "return { successCount, failCount };"
BroadcastReturn ==
  /\ ~bc.returned
  /\ BroadcastFinished(bc.b)
  /\ bc' = Call(BroadcastSkip(bc.b), TRUE)
  /\ UNCHANGED <<bots, botUsers, channelUrls, users, webhooks, now, inflight,
                 mk, last, events>>

NextBroadcast == BroadcastNext \/ BroadcastReturn

SpecBroadcast == InitBroadcast /\ [][NextBroadcast]_vars

\* every awaited send settles, so the loop goes on
SpecBroadcastLive == SpecBroadcast /\ WF_vars(NextBroadcast)

-----------------------------------------------------------------------------
(* The owner of bot A sets the channel URL *)

UrlBare == <<"h", "t", "t", "p", "s", ":", "/", "/">>
UrlSpaced == <<" ", "f", "o", "o", " ">>
UrlUpper == <<"T", ".", "M", "E", "/", "f", "o", "o">>
UrlTwoLines == <<"f", "o", "\n", "o">>

\* what the owner types when asked for the channel URL
UrlTexts ==
  {UrlTmeFoo, UrlHttpsFooSlash, UrlHttpFoo, UrlFoo, UrlNotAUrl, UrlTelegramMe,
   UrlBare, UrlSpaced, UrlUpper, UrlTwoLines, <<"/">>, LblCancel,
   LblSetChannelUrl}

UrlUpdates ==
  {Update(TokA, "message", U1, U1, "text", x, "none") : x \in UrlTexts}

\* rows of bot A after its owner sent /panel and pressed "Set Channel URL"
AskedForUrl ==
  {IF r.userId = U1 THEN [r EXCEPT !.adminState = "awaiting_channel"] ELSE r :
     r \in WarmBotUsers}

InitUrl ==
  /\ bots = TwoBots
  /\ botUsers \in {WarmBotUsers, AskedForUrl}
  /\ channelUrls \in {{}, {[botToken |-> TokA, url |-> UrlStoredTestChannel]}}
  /\ users = WarmUsers
  /\ webhooks = Tokens
  /\ now = 1
  /\ inflight = AllIdle
  /\ mk = MakersIdle
  /\ last = NoLast
  /\ events = 0
  /\ bc = NoCall

\* the owner's message is handled to the end
HandleUrl ==
  /\ events < MaxEvents
  /\ \E u \in UrlUpdates :
       \E w \in CreatedRun(World(NewHandler(u), {})) :
         /\ Store(w)
         /\ last' = [kind |-> "created", h |-> w.h]
  /\ events' = events + 1
  /\ UNCHANGED <<now, inflight, mk, bc>>

NextUrl == HandleUrl

SpecUrl == InitUrl /\ [][NextUrl]_vars

-----------------------------------------------------------------------------
(* The creation of bots: users who pressed Create Bot send tokens to the    *)
(* maker bot, and their requests overlap.                                    *)

MaxCreateEvents == 2   \* requests to the maker bot per behaviour

\* the texts sent while the token is awaited: the token of a bot, a token
\* Telegram rejects, and the labels
CreateUpdates ==
  {MakerUpdate(u, "text", x) :
     u \in {U1, U2}, x \in {TokA, TokB, TokX, LblPlainBack, LblCreateBot}}

\* users 1 and 2 after /start and Create Bot
AskedForToken ==
  {[r EXCEPT !.step = "create_bot"] : r \in StartedUsers}

\* no bot yet, or bot A made by user 1
InitCreate ==
  /\ bots \in {{}, {BotRow(TokA, U1)}}
  /\ botUsers = {} /\ channelUrls = {}
  /\ users = AskedForToken
  /\ webhooks = {b.token : b \in bots}
  /\ now = 1
  /\ inflight = AllIdle
  /\ mk = MakersIdle
  /\ last = NoLast
  /\ events = 0
  /\ bc = NoCall

\* an invocation of the maker's webhook starts
ReceiveMaker(s) ==
  /\ events < MaxCreateEvents
  /\ mk[s].h.pc = "idle"
  /\ \E u \in CreateUpdates :
       mk' = [mk EXCEPT ![s] = Invocation(NewMakerHandler(u),
                                          BotsWith(bots, u.text) # {})]
  /\ events' = events + 1
  /\ UNCHANGED <<bots, botUsers, channelUrls, users, webhooks, now, inflight,
                 last, bc>>

\* an invocation runs to its next awaited call or to its end
StepMaker(s) ==
  /\ mk[s].h.pc \notin {"idle", "done"}
  /\ \E w \in MakerStep(World(mk[s].h, {})) :
       /\ Store(w)
       /\ mk' = [mk EXCEPT ![s].h = w.h]
  /\ UNCHANGED <<now, inflight, last, events, bc>>

\* an invocation is over
CompleteMaker(s) ==
  /\ mk[s].h.pc = "done"
  /\ last' = [kind |-> "maker", h |-> mk[s].h]
  /\ mk' = [mk EXCEPT ![s] = IdleMaker]
  /\ UNCHANGED <<bots, botUsers, channelUrls, users, webhooks, now, inflight,
                 events, bc>>

NextCreate ==
  \E s \in Slots : ReceiveMaker(s) \/ StepMaker(s) \/ CompleteMaker(s)

\* requests to the maker bot, interleaved at their awaited calls
SpecCreate == InitCreate /\ [][NextCreate]_vars

-----------------------------------------------------------------------------
(* Broadcast Sub: the platform owner's message goes to the joined members   *)
(* of every created bot.                                                     *)

\* the (bot, user) pairs that may have a membership row, in the order of
\* their creation
SubPairs == <<<<TokA, U1>>, <<TokA, U2>>, <<TokA, U3>>, <<TokB, U2>>,
             <<TokB, U3>>>>

\* a row is absent, or that of a member who has not joined, has joined, or
\* has joined and was blocked
SubStates == {"absent", "member", "joined", "blocked"}

\* the BotUser rows of an assignment of states to the pairs
SubRows(f) ==
  {[NewBotUser(i, SubPairs[i][1], SubPairs[i][2], 0)
      EXCEPT !.isFirstStart = FALSE,
             !.hasJoined = f[i] \in {"joined", "blocked"},
             !.isBlocked = f[i] = "blocked"] :
     i \in {j \in DOMAIN SubPairs : f[j] # "absent"}}

\* what the owner sends: the label, a message to broadcast, Cancel
SubUpdates ==
  {MakerUpdate(OWNER_ID, "text", x) :
     x \in {LblBroadcastSub, TxtHello, LblCancel}}

\* two bots with any memberships; the owner was asked for the message
InitSub ==
  /\ bots = TwoBots
  /\ \E f \in [DOMAIN SubPairs -> SubStates] : botUsers = SubRows(f)
  /\ channelUrls = {}
  /\ users = {IF r.userId = OWNER_ID
              THEN [r EXCEPT !.adminState = "awaiting_broadcast_sub"]
              ELSE r : r \in StartedUsers}
  /\ webhooks = Tokens
  /\ now = 1
  /\ inflight = AllIdle
  /\ mk = MakersIdle
  /\ last = NoLast
  /\ events = 0
  /\ bc = NoCall

\* the owner's message is handled to the end
HandleSub ==
  /\ events < MaxEvents
  /\ \E u \in SubUpdates :
       \E w \in MakerRun(World(NewMakerHandler(u), {})) :
         /\ Store(w)
         /\ last' = [kind |-> "maker", h |-> w.h]
  /\ events' = events + 1
  /\ UNCHANGED <<now, inflight, mk, bc>>

NextSub == HandleSub

SpecSub == InitSub /\ [][NextSub]_vars

-----------------------------------------------------------------------------
(* The router of the created bots: requests with and without a known       *)
(* token, a chat and a sender.                                               *)

\* /start and the "joined" callback of users 1 and 2, and the requests the
\* router rejects: an unknown token, no token, no chat, no sender, neither
RouterUpdates ==
  {Update(t, "message", u, u, "text", CmdStart, "none") :
     t \in Tokens, u \in Senders}
  \cup {Update(t, "callback", u, u, "text", NoText, "joined") :
          t \in Tokens, u \in Senders}
  \cup {Update(TokX, "message", U1, U1, "text", CmdStart, "none"),
        Update(NoToken, "message", U1, U1, "text", CmdStart, "none"),
        Update(TokA, "message", NoId, U1, "text", CmdStart, "none"),
        Update(TokA, "message", U1, NoId, "text", CmdStart, "none"),
        Update(TokA, "none", NoId, NoId, "text", NoText, "none")}

\* a created bot's webhook receives one of them and handles it to the end
HandleRouter ==
  /\ events < MaxEvents
  /\ \E u \in RouterUpdates :
       \E w \in CreatedRun(World(NewHandler(u), {})) :
         /\ Store(w)
         /\ last' = [kind |-> "created", h |-> w.h]
  /\ events' = events + 1
  /\ UNCHANGED <<now, inflight, mk, bc>>

NextRouter == HandleRouter

SpecRouter == Init /\ [][NextRouter]_vars

-----------------------------------------------------------------------------
(* Two bots in use at the same time: the admin inputs of both owners and    *)
(* the first contacts of users overlap.                                      *)

MaxFrameEvents == 2   \* requests to the created bots per behaviour

\* bot A of user 1 with member 2, bot B of user 2 with member 1; both owners
\* are in an admin state
FrameBotUsers(a, b) ==
  {[NewBotUser(1, TokA, U1, 0) EXCEPT !.isFirstStart = FALSE, !.adminState = a],
   [NewBotUser(2, TokA, U2, 0) EXCEPT !.isFirstStart = FALSE,
                                      !.hasJoined = TRUE],
   [NewBotUser(3, TokB, U2, 0) EXCEPT !.isFirstStart = FALSE, !.adminState = b],
   [NewBotUser(4, TokB, U1, 0) EXCEPT !.isFirstStart = FALSE,
                                      !.hasJoined = TRUE]}

\* what the owners send to their bots (a URL, an id, a label), and the
\* /start of a user new to the bot
FrameUpdates ==
  {Update(TokA, "message", U1, U1, "text", x, "none") :
     x \in {UrlTmeFoo, U2, LblSetChannelUrl}}
  \cup {Update(TokB, "message", U2, U2, "text", x, "none") :
          x \in {UrlTmeFoo, U1, LblBlock}}
  \cup {Update(TokA, "message", U3, U3, "text", CmdStart, "none"),
        Update(TokB, "message", U3, U3, "text", CmdStart, "none")}

InitFrame ==
  /\ bots = TwoBots
  /\ \E a, b \in {"admin_panel", "awaiting_channel", "awaiting_block"} :
       botUsers = FrameBotUsers(a, b)
  /\ channelUrls = {[botToken |-> TokA, url |-> UrlStoredTestChannel],
                    [botToken |-> TokB, url |-> UrlStoredTestChannel]}
  /\ users = StartedUsers
  /\ webhooks = Tokens
  /\ now = 1
  /\ inflight = AllIdle
  /\ mk = MakersIdle
  /\ last = NoLast
  /\ events = 0
  /\ bc = NoCall

\* an invocation starts
ReceiveFrame(s) ==
  /\ events < MaxFrameEvents
  /\ inflight[s].pc = "idle"
  /\ \E u \in FrameUpdates : inflight' = [inflight EXCEPT ![s] = NewHandler(u)]
  /\ events' = events + 1
  /\ UNCHANGED <<bots, botUsers, channelUrls, users, webhooks, now, mk, last,
                 bc>>

NextFrame ==
  \E s \in Slots : ReceiveFrame(s) \/ StepCreated(s) \/ Complete(s)

\* requests to the two bots, interleaved at their awaited calls
SpecFrame == InitFrame /\ [][NextFrame]_vars

-----------------------------------------------------------------------------
(* The owner of bot A was asked for the message to broadcast and sends      *)
(* messages faster than they are handled.                                    *)

\* rows of bot A after its owner pressed Broadcast
AskedForBroadcast ==
  {IF r.userId = U1 THEN [r EXCEPT !.adminState = "awaiting_broadcast"] ELSE r :
     r \in WarmBotUsers}

\* the owner's messages, and one of a member
OverlapUpdates ==
  {Update(TokA, "message", U1, U1, c, x, "none") :
     c \in {"text"}, x \in {TxtHello, LblCancel, LblBroadcast}}
  \cup {Update(TokA, "message", U1, U1, "photo", NoText, "none"),
        Update(TokA, "message", U2, U2, "text", TxtHello, "none")}

InitOverlap ==
  /\ bots = TwoBots
  /\ botUsers = AskedForBroadcast
  /\ channelUrls = {}
  /\ users = StartedUsers
  /\ webhooks = Tokens
  /\ now = 1
  /\ inflight = AllIdle
  /\ mk = MakersIdle
  /\ last = NoLast
  /\ events = 0
  /\ bc = NoCall

\* an invocation starts
ReceiveOverlap(s) ==
  /\ events < MaxEvents
  /\ inflight[s].pc = "idle"
  /\ \E u \in OverlapUpdates :
       inflight' = [inflight EXCEPT ![s] = NewHandler(u)]
  /\ events' = events + 1
  /\ UNCHANGED <<bots, botUsers, channelUrls, users, webhooks, now, mk, last,
                 bc>>

NextOverlap ==
  \E s \in Slots : ReceiveOverlap(s) \/ StepCreated(s) \/ Complete(s)

\* requests to bot A, interleaved at their awaited calls
SpecOverlap == InitOverlap /\ [][NextOverlap]_vars

-----------------------------------------------------------------------------
(* The owner's admin flow: messages of the owner of bot A, sent faster than *)
(* they are handled, from every admin state.                                *)

\* rows of bot A and one joined member, with the owner in admin state a
FlowBotUsers(a) ==
  {IF r.userId = U1 THEN [r EXCEPT !.adminState = a] ELSE r :
     r \in {q \in WarmBotUsers : q.userId \in {U1, U2}}}

\* commands, panel labels and inputs the owner sends
FlowUpdates ==
  {Update(TokA, "message", U1, U1, "text", x, "none") :
     x \in {CmdStart, CmdPanel, LblBroadcast, LblSetChannelUrl, LblBlock,
            LblUnlock, LblBack, LblCancel, U2}}

InitFlow ==
  /\ bots = TwoBots
  /\ \E a \in AdminStates : botUsers = FlowBotUsers(a)
  /\ channelUrls = {}
  /\ users = StartedUsers
  /\ webhooks = Tokens
  /\ now = 1
  /\ inflight = AllIdle
  /\ mk = MakersIdle
  /\ last = NoLast
  /\ events = 0
  /\ bc = NoCall

\* an invocation starts
ReceiveFlow(s) ==
  /\ events < MaxEvents
  /\ inflight[s].pc = "idle"
  /\ \E u \in FlowUpdates : inflight' = [inflight EXCEPT ![s] = NewHandler(u)]
  /\ events' = events + 1
  /\ UNCHANGED <<bots, botUsers, channelUrls, users, webhooks, now, mk, last,
                 bc>>

NextFlow == \E s \in Slots : ReceiveFlow(s) \/ StepCreated(s) \/ Complete(s)

\* the owner's requests to bot A, interleaved at their awaited calls
SpecFlow == InitFlow /\ [][NextFlow]_vars

-----------------------------------------------------------------------------
(* The two admin panels: the owner of bot A, who is the platform owner,     *)
(* sends labels, other texts and photos to bot A and to the maker bot.      *)

\* the labels of adminPanel (created.js) and of ownerAdminPanel (maker.js)
PanelLabels ==
  {LblStatistics, LblBroadcast, LblSetChannelUrl, LblBlock, LblUnlock, LblBack}
OwnerPanelLabels ==
  {LblStatistics, LblBroadcastUser, LblBroadcastSub, LblBlock, LblUnlock,
   LblRemoveBot, LblBack}

\* texts of the owner: some are labels of one panel, some of neither
PanelTexts ==
  {TxtHello, <<"/">>, LblCancel, LblPlainBack, CmdClear, LblBroadcast,
   LblBroadcastUser, LblStatistics, LblBack, CmdPanel}

PanelUpdates ==
  {Update(TokA, "message", U1, U1, "text", x, "none") : x \in PanelTexts}
  \cup {Update(TokA, "message", U1, U1, "photo", NoText, "none")}

MakerPanelUpdates ==
  {MakerUpdate(OWNER_ID, "text", x) : x \in PanelTexts}
  \cup {MakerUpdate(OWNER_ID, "photo", NoText)}

InitPanel ==
  /\ bots = TwoBots
  /\ botUsers = WarmBotUsers
  /\ channelUrls = {}
  /\ users = WarmUsers
  /\ webhooks = Tokens
  /\ now = 1
  /\ inflight = AllIdle
  /\ mk = MakersIdle
  /\ last = NoLast
  /\ events = 0
  /\ bc = NoCall

\* bot A's webhook receives a message of its owner and handles it to the end
HandleCreatedPanel ==
  /\ events < MaxEvents
  /\ \E u \in PanelUpdates :
       \E w \in CreatedRun(World(NewHandler(u), {})) :
         /\ Store(w)
         /\ last' = [kind |-> "created", h |-> w.h]
  /\ events' = events + 1
  /\ UNCHANGED <<now, inflight, mk, bc>>

\* the maker bot receives a message of the platform owner and handles it
HandleMakerPanel ==
  /\ events < MaxEvents
  /\ \E u \in MakerPanelUpdates :
       \E w \in MakerRun(World(NewMakerHandler(u), {})) :
         /\ Store(w)
         /\ last' = [kind |-> "maker", h |-> w.h]
  /\ events' = events + 1
  /\ UNCHANGED <<now, inflight, mk, bc>>

NextPanel == HandleCreatedPanel \/ HandleMakerPanel

\* the owner's messages to the two bots, handled one after another
SpecPanel == InitPanel /\ [][NextPanel]_vars

-----------------------------------------------------------------------------
(* The echo of regular messages: the owner of bot A and a member, both      *)
(* joined, and a member who has not joined, send content of every kind.     *)

\* rows of bot A: its owner and user 2 have joined, user 3 has not
EchoBotUsers ==
  {[NewBotUser(1, TokA, U1, 0) EXCEPT !.isFirstStart = FALSE,
                                      !.hasJoined = TRUE],
   [NewBotUser(2, TokA, U2, 0) EXCEPT !.isFirstStart = FALSE,
                                      !.hasJoined = TRUE],
   [NewBotUser(3, TokA, U3, 0) EXCEPT !.isFirstStart = FALSE]}

EchoUpdates ==
  {Update(TokA, "message", u, u, "text", x, "none") :
     u \in Users, x \in {TxtHello, CmdStart, CmdPanel}}
  \cup {Update(TokA, "message", u, u, c, NoText, "none") :
          u \in Users, c \in ContentKinds \ {"text"}}
  \cup {Update(TokA, "callback", U3, U3, "text", NoText, "joined")}

InitEcho ==
  /\ bots = TwoBots
  /\ botUsers = EchoBotUsers
  /\ channelUrls = {}
  /\ users = StartedUsers
  /\ webhooks = Tokens
  /\ now = 1
  /\ inflight = AllIdle
  /\ mk = MakersIdle
  /\ last = NoLast
  /\ events = 0
  /\ bc = NoCall

\* bot A's webhook receives an update and handles it to the end
HandleEcho ==
  /\ events < MaxEvents
  /\ \E u \in EchoUpdates :
       \E w \in CreatedRun(World(NewHandler(u), {})) :
         /\ Store(w)
         /\ last' = [kind |-> "created", h |-> w.h]
  /\ events' = events + 1
  /\ UNCHANGED <<now, inflight, mk, bc>>

NextEcho == HandleEcho

\* messages to bot A, handled one after another
SpecEcho == InitEcho /\ [][NextEcho]_vars

-----------------------------------------------------------------------------
(* The deletion of bot A by its creator while bot A handles events: a first *)
(* contact and the channel URL typed by the owner.                          *)

\* bot A's owner is asked for the channel URL
DeleteBotUsers0 ==
  {[NewBotUser(1, TokA, U1, 0) EXCEPT !.isFirstStart = FALSE,
                                      !.adminState = "awaiting_channel"]}

\* the creator of bot A has pressed Delete Bot
AskedForDelete ==
  {IF r.userId = U1 THEN [r EXCEPT !.step = "delete_bot"] ELSE r :
     r \in StartedUsers}

DeleteCreatedUpdates ==
  {Update(TokA, "message", U2, U2, "text", CmdStart, "none"),
   Update(TokA, "message", U1, U1, "text", UrlTmeFoo, "none")}

DeleteMakerUpdates == {MakerUpdate(U1, "text", TokA)}

InitDelete ==
  /\ bots = TwoBots
  /\ botUsers = DeleteBotUsers0
  /\ channelUrls = {}
  /\ users = AskedForDelete
  /\ webhooks = Tokens
  /\ now = 1
  /\ inflight = AllIdle
  /\ mk = MakersIdle
  /\ last = NoLast
  /\ events = 0
  /\ bc = NoCall

\* an invocation of bot A's webhook starts
ReceiveDeleteCreated(s) ==
  /\ events < MaxEvents
  /\ inflight[s].pc = "idle"
  /\ \E u \in DeleteCreatedUpdates :
       inflight' = [inflight EXCEPT ![s] = NewHandler(u)]
  /\ events' = events + 1
  /\ UNCHANGED <<bots, botUsers, channelUrls, users, webhooks, now, mk, last,
                 bc>>

\* an invocation of the maker's webhook starts
ReceiveDeleteMaker(s) ==
  /\ events < MaxEvents
  /\ mk[s].h.pc = "idle"
  /\ \E u \in DeleteMakerUpdates :
       mk' = [mk EXCEPT ![s] = Invocation(NewMakerHandler(u),
                                          BotsWith(bots, u.text) # {})]
  /\ events' = events + 1
  /\ UNCHANGED <<bots, botUsers, channelUrls, users, webhooks, now, inflight,
                 last, bc>>

NextDelete ==
  \E s \in Slots :
    \/ ReceiveDeleteCreated(s) \/ StepCreated(s) \/ Complete(s)
    \/ ReceiveDeleteMaker(s) \/ StepMaker(s) \/ CompleteMaker(s)

\* requests to bot A and to the maker bot, interleaved at their awaited calls
SpecDelete == InitDelete /\ [][NextDelete]_vars

-----------------------------------------------------------------------------
(* A member of bot A joins while other requests of the same member and of   *)
(* the owner are in flight.                                                 *)

MaxJoinEvents == 3   \* requests to bot A per behaviour of SpecJoin

\* rows of bot A: its owner is asked whom to block, user 2 has not joined
JoinBotUsers ==
  {[NewBotUser(1, TokA, U1, 0) EXCEPT !.isFirstStart = FALSE,
                                      !.hasJoined = TRUE,
                                      !.adminState = "awaiting_block"],
   [NewBotUser(2, TokA, U2, 0) EXCEPT !.isFirstStart = FALSE]}

\* the member presses Joined, sends /start or a text; the owner blocks the
\* member or sends /start
JoinUpdates ==
  {Update(TokA, "callback", U2, U2, "text", NoText, "joined")}
  \cup {Update(TokA, "message", U2, U2, "text", x, "none") :
          x \in {CmdStart, TxtHello}}
  \cup {Update(TokA, "message", U1, U1, "text", x, "none") :
          x \in {U2, CmdStart}}

InitJoin ==
  /\ bots = TwoBots
  /\ botUsers = JoinBotUsers
  /\ channelUrls = {}
  /\ users = StartedUsers
  /\ webhooks = Tokens
  /\ now = 1
  /\ inflight = AllIdle
  /\ mk = MakersIdle
  /\ last = NoLast
  /\ events = 0
  /\ bc = NoCall

\* an invocation starts
ReceiveJoin(s) ==
  /\ events < MaxJoinEvents
  /\ inflight[s].pc = "idle"
  /\ \E u \in JoinUpdates : inflight' = [inflight EXCEPT ![s] = NewHandler(u)]
  /\ events' = events + 1
  /\ UNCHANGED <<bots, botUsers, channelUrls, users, webhooks, now, mk, last,
                 bc>>

NextJoin == \E s \in Slots : ReceiveJoin(s) \/ StepCreated(s) \/ Complete(s)

\* requests to bot A, interleaved at their awaited calls
SpecJoin == InitJoin /\ [][NextJoin]_vars

-----------------------------------------------------------------------------
(* The owner of bot A sets the channel URL and then sends the stored URL    *)
(* as the next URL.                                                         *)

MaxUrlEvents == 3   \* messages of the owner per behaviour of SpecResubmit

UrlFooSpaceSlash == <<"f", "o", "o", " ", "/">>
UrlTmeTme == <<"t", ".", "m", "e", "/", "/">>

\* what the owner types: sample URLs, the label that asks for the URL again
\* and the URL the bot has stored
ResubmitTexts(rows) ==
  {UrlFoo, UrlHttpsFooSlash, UrlTelegramMe, UrlUpper, UrlSpaced, UrlTmeTme,
   UrlFooSpaceSlash, UrlNotAUrl, UrlTwoLines, LblSetChannelUrl}
  \cup {r.url : r \in ChannelUrlsWith(rows, TokA)}

ResubmitUpdates(rows) ==
  {Update(TokA, "message", U1, U1, "text", x, "none") :
     x \in ResubmitTexts(rows)}

InitResubmit ==
  /\ bots = TwoBots
  /\ botUsers = AskedForUrl
  /\ channelUrls = {}
  /\ users = WarmUsers
  /\ webhooks = Tokens
  /\ now = 1
  /\ inflight = AllIdle
  /\ mk = MakersIdle
  /\ last = NoLast
  /\ events = 0
  /\ bc = NoCall

\* the owner's message is handled to the end
HandleResubmit ==
  /\ events < MaxUrlEvents
  /\ \E u \in ResubmitUpdates(channelUrls) :
       \E w \in CreatedRun(World(NewHandler(u), {})) :
         /\ Store(w)
         /\ last' = [kind |-> "created", h |-> w.h]
  /\ events' = events + 1
  /\ UNCHANGED <<now, inflight, mk, bc>>

NextResubmit == HandleResubmit

SpecResubmit == InitResubmit /\ [][NextResubmit]_vars

-----------------------------------------------------------------------------
(* Properties *)

\* the sends of a handler that went to one chat, in their order
SendsTo(out, to) == SelectSeq(out, LAMBDA e : e.to = to)

\* the number of sends of a kind
CountKind(out, kind) == Cardinality({i \in DOMAIN out : out[i].kind = kind})

\* the last request was one to a created bot and got past the lookup of the
\* bot, the chat and the sender
Dispatched == last.kind = "created" /\ last.h.creatorId # NoId

\* the step is the handling of a whole request to a created bot
CreatedEvent == events' = events + 1 /\ last'.kind = "created"

\* the step is the handling of a whole request to the maker bot
MakerEvent == events' = events + 1 /\ last'.kind = "maker"

\* C1: of the events that arrive one after another from one (credential,
\* user) pair, the one that creates the membership row sends exactly one
\* first-contact notification to the owner and leaves exactly one row, and
\* no later event sends a notification
C1_OnlyFirstContactNotifies ==
  Dispatched =>
    /\ Cardinality(BotUsersWith(botUsers, last.h.update.token,
                                last.h.update.from)) = 1
    /\ CountKind(last.h.out, "notify") = IF last.h.created THEN 1 ELSE 0

\* the step handles an event of a user whose membership of the addressed
\* bot is blocked and who is not the bot's owner
BlockedMemberEvent ==
  /\ CreatedEvent
  /\ LET u == last'.h.update IN
       /\ \E r \in BotUsersWith(botUsers, u.token, u.from) : r.isBlocked
       /\ \E b \in BotsWith(bots, u.token) : b.creatorId # u.from

\* no row appears or disappears, the flow fields of the sender's membership
\* keep their values, and every other row is untouched
GateKeepsState ==
  LET u == last'.h.update IN
  /\ bots' = bots /\ channelUrls' = channelUrls /\ users' = users
  /\ {r.id : r \in botUsers'} = {r.id : r \in botUsers}
  /\ \A r \in botUsers : \A q \in botUsers' :
       r.id = q.id =>
         IF r.botToken = u.token /\ r.userId = u.from
         THEN /\ q.hasJoined = r.hasJoined /\ q.userStep = r.userStep
              /\ q.adminState = r.adminState /\ q.isBlocked = r.isBlocked
              /\ q.botToken = r.botToken /\ q.userId = r.userId
         ELSE q = r

\* C3: an event of a blocked member who is not the owner results in the ban
\* notice, and nothing else, being sent to the sender, and changes neither
\* the flow fields of the membership nor any channel row or other membership
C3_BlockedMemberOnlyBanned ==
  [][BlockedMemberEvent =>
       /\ SendsTo(last'.h.out, last'.h.update.chat)
            = <<Sent(last'.h.update.chat, "ban", TRUE)>>
       /\ GateKeepsState]_vars

\* C2: when two overlapping events of one unseen (credential, user) pair
\* both try to insert the membership row, one row exists afterwards and the
\* invocation whose insert hit the unique index still completes normally
C2_RaceLoserCompletes ==
  /\ \A t \in Tokens : \A u \in Users :
       Cardinality(BotUsersWith(botUsers, t, u)) <= 1
  /\ \A s \in Slots :
       inflight[s].pc = "done" /\ inflight[s].lostRace
         => inflight[s].resp = 200

\* the step handles a text message to the maker bot of a user whose User
\* row is blocked
BlockedUserEvent ==
  /\ MakerEvent
  /\ last'.h.update.content = "text"
  /\ \E r \in UsersWith(users, last'.h.update.from) : r.isBlocked

\* the step leaves every collection and the webhooks as they were
StoreUnchanged ==
  /\ bots' = bots /\ botUsers' = botUsers /\ channelUrls' = channelUrls
  /\ users' = users /\ webhooks' = webhooks

\* C4: whatever a blocked platform user sends to the maker bot (start,
\* /panel, /clear, a keyboard label or free text), the ban notice and
\* nothing else is replied and no stored state changes
C4_BlockedUserOnlyBanned ==
  [][BlockedUserEvent =>
       /\ last'.h.out = <<Sent(last'.h.update.from, "ban", TRUE)>>
       /\ StoreUnchanged]_vars

\* the owner of a bot is not blocked in that bot, and the platform owner is
\* not blocked on the platform
OwnersNotBlocked ==
  /\ \A b \in bots : \A r \in BotUsersWith(botUsers, b.token, b.creatorId) :
       ~r.isBlocked
  /\ \A r \in UsersWith(users, OWNER_ID) : ~r.isBlocked

\* the step handles the id an owner typed when asked whom to block, and the
\* id is the owner's own
SelfBlockEvent ==
  \/ /\ CreatedEvent
     /\ LET u == last'.h.update IN
          /\ u.kind = "message" /\ u.content = "text"
          /\ Trim(u.text) = u.from
          /\ \E b \in BotsWith(bots, u.token) : b.creatorId = u.from
          /\ \E r \in BotUsersWith(botUsers, u.token, u.from) :
               r.adminState = "awaiting_block"
  \/ /\ MakerEvent
     /\ LET u == last'.h.update IN
          /\ u.content = "text" /\ u.from = OWNER_ID
          /\ Trim(u.text) = OWNER_ID
          /\ \E r \in UsersWith(users, OWNER_ID) :
               r.adminState = "awaiting_block"

\* no isBlocked flag of a membership or of a user changes in the step
BlockFlagsKept ==
  /\ {<<r.id, r.isBlocked>> : r \in botUsers'}
       = {<<r.id, r.isBlocked>> : r \in botUsers}
  /\ {<<r.id, r.isBlocked>> : r \in users'}
       = {<<r.id, r.isBlocked>> : r \in users}

\* C5: the owner of a bot is never blocked in that bot and the platform
\* owner is never blocked on the platform; an owner's attempt to block their
\* own id is refused and changes no blocked flag
C5_OwnersNeverBlocked ==
  [][/\ OwnersNotBlocked'
     /\ SelfBlockEvent =>
          /\ CountKind(last'.h.out, "cannotBlockSelf") = 1
          /\ BlockFlagsKept]_vars

\* the platform owner typed their own id when asked whom to block, was
\* refused, and is not blocked, while another user of the platform is
C5_Witness ==
  /\ last.kind = "maker"
  /\ last.h.update = MakerUpdate(OWNER_ID, "text", OWNER_ID)
  /\ CountKind(last.h.out, "cannotBlockSelf") = 1
  /\ \E r \in users : r.isBlocked

\* the last request was one in which the maker bot deleted a bot
Deleted == last.kind = "maker" /\ last.h.deleted # <<>>

\* C6: when the Delete Bot or the Remove Bot flow has deleted the bot of a
\* credential, no Bot, BotUser or ChannelUrl row has that credential and the
\* rows of every other credential are as they were
C6_DeleteRemovesAllRowsOfBot ==
  [][MakerEvent /\ last'.h.deleted # <<>> =>
       LET c == last'.h.token IN
       /\ bots' = {b \in bots : b.token # c}
       /\ botUsers' = {r \in botUsers : r.botToken # c}
       /\ channelUrls' = {r \in channelUrls : r.botToken # c}]_vars

\* bot A, which had members and a channel row, has been deleted and bot B
\* is still there
C6_Witness ==
  /\ Deleted
  /\ last.h.token = TokA
  /\ bots = {BotRow(TokB, U2)}
  /\ botUsers = {} /\ channelUrls = {}
  /\ CountKind(last.h.out, "botRemoved") = 1

\* C7: the deletion of a bot first tries to remove its webhook and then
\* removes the Bot row, and it goes on to remove the rows when the webhook
\* could not be removed
C7_WebhookFirstAndNotFatal ==
  Deleted =>
    /\ Len(last.h.deleted) = 4
    /\ last.h.deleted[1] \in {"webhook", "webhookFailed"}
    /\ SubSeq(last.h.deleted, 2, 4) = <<"bot", "botUsers", "channelUrl">>
    /\ BotsWith(bots, last.h.token) = {}
    /\ CountKind(last.h.out, "error") = 0

\* a bot has been deleted although its webhook could not be removed
C7_Witness ==
  /\ Deleted
  /\ last.h.deleted[1] = "webhookFailed"
  /\ last.h.token \in webhooks
  /\ BotsWith(bots, last.h.token) = {}

\* the recipients of a call that are not the excluded sender, in their order
NotExcluded(b) == SelectSeq(b.targets, LAMBDA u : u # b.adminId)

\* the sends of a call that were rejected
Rejected(b) == {i \in DOMAIN b.log : ~b.log[i].ok}

\* C8: a call of broadcastMessage with N recipients other than the excluded
\* sender, of which K sends fail, returns (N - K, K); the excluded sender is
\* sent nothing and is counted in neither number
C8_BroadcastCounts ==
  bc.returned =>
    LET n == Len(NotExcluded(bc.b))
        k == Cardinality(Rejected(bc.b))
    IN  /\ bc.b.successCount = n - k
        /\ bc.b.failCount = k
        /\ \A i \in DOMAIN bc.b.log : bc.b.log[i].to # bc.b.adminId

\* a call has returned (1, 1) for three recipients of which one was the
\* excluded sender
C8_Witness ==
  /\ bc.returned
  /\ Len(bc.b.targets) = 3 /\ Len(NotExcluded(bc.b)) = 2
  /\ bc.b.successCount = 1 /\ bc.b.failCount = 1

\* C9: broadcastMessage always returns: it tries every recipient other than
\* the excluded sender exactly once, in the order of the list, whatever
\* sends fail, and its two counts add up to the number of those recipients
C9_BroadcastNeverAborts ==
  /\ [](LET who == [i \in DOMAIN bc.b.log |-> bc.b.log[i].to] IN
        /\ who = SubSeq(NotExcluded(bc.b), 1, Len(who))
        /\ bc.b.successCount + bc.b.failCount = Len(who)
        /\ bc.returned => Len(who) = Len(NotExcluded(bc.b)))
  /\ <>bc.returned

\* a call has returned after a send was rejected and a later one was not
C9_Witness ==
  /\ bc.returned
  /\ \E i, j \in DOMAIN bc.b.log :
       i < j /\ ~bc.b.log[i].ok /\ bc.b.log[j].ok

\* the step handles what the owner of bot A typed when asked for the
\* channel URL
UrlInputEvent(x) ==
  /\ CreatedEvent
  /\ last'.h.update = Update(TokA, "message", U1, U1, "text", x, "none")
  /\ \E r \in BotUsersWith(botUsers, TokA, U1) :
       r.adminState = "awaiting_channel"

\* C10: "t.me/foo", "https://t.me/foo/", "http://t.me/foo" and "foo" are
\* all stored as "https://t.me/foo", and "not a url" is rejected and writes
\* no channel row
C10_UrlNormalisation ==
  [][/\ \A x \in {UrlTmeFoo, UrlHttpsFooSlash, UrlHttpFoo, UrlFoo} :
          UrlInputEvent(x) =>
            channelUrls' = {[botToken |-> TokA, url |-> UrlStoredFoo]}
     /\ UrlInputEvent(UrlNotAUrl) =>
          /\ channelUrls' = channelUrls
          /\ CountKind(last'.h.out, "invalidUrl") = 1]_vars

\* C11: when the owner of bot A, asked for the channel URL after pressing
\* "Set Channel URL", sends "telegram.me/test_channel", the URL stored for
\* the bot is "https://t.me/test_channel" and the owner is back in the admin
\* panel
C11_TelegramMeScenario ==
  [][UrlInputEvent(UrlTelegramMe) =>
       /\ channelUrls' = {[botToken |-> TokA, url |-> UrlStoredTestChannel]}
       /\ \A r \in BotUsersWith(botUsers', TokA, U1) :
            r.adminState = "admin_panel"]_vars

\* the step handles an event whose credential has no Bot row
UnknownTenantEvent ==
  /\ CreatedEvent
  /\ last'.h.update.token # NoToken
  /\ BotsWith(bots, last'.h.update.token) = {}

\* the step handles an event for an existing bot that has no chat or no
\* sender
MalformedEvent ==
  /\ CreatedEvent
  /\ BotsWith(bots, last'.h.update.token) # {}
  /\ (last'.h.update.chat = NoId \/ last'.h.update.from = NoId)

\* C12: an event whose credential matches no bot is answered with 404, an
\* event for a known bot without a chat or without a sender is answered with
\* 400, and in both cases no membership row is created or changed and
\* nothing is sent
C12_RouterRejects ==
  [][/\ UnknownTenantEvent => last'.h.resp = 404
     /\ MalformedEvent => last'.h.resp = 400
     /\ (UnknownTenantEvent \/ MalformedEvent) =>
          botUsers' = botUsers /\ last'.h.out = <<>>]_vars

\* an event for a known bot that already has members was rejected as
\* malformed
C12_Witness ==
  /\ last.kind = "created" /\ last.h.resp = 400
  /\ last.h.update.token = TokA
  /\ BotUsersWith(botUsers, TokA, U2) # {}

\* an event for an unknown credential was rejected while members exist
C12_WitnessUnknown ==
  /\ last.kind = "created" /\ last.h.resp = 404
  /\ last.h.update.token = TokX /\ botUsers # {}

\* C13: every request to a created bot that has been handled to its end
\* has been given an HTTP response
C13_AlwaysAnswered ==
  last.kind = "created" => last.h.pc = "done" /\ last.h.resp # 0

\* C14: a request to a created bot that got past the lookup of the bot, the
\* chat and the sender is never answered with a status outside 2xx, whatever
\* fails while it is handled
C14_OnlyRouterErrorsSurface ==
  Dispatched => last.h.resp \notin {400, 404, 500}

\* the step handles an event whose first-contact notification to the owner
\* of the bot was rejected by the transport
NotifyFailedEvent ==
  /\ CreatedEvent
  /\ \E i \in DOMAIN last'.h.out :
       last'.h.out[i].kind = "notify" /\ ~last'.h.out[i].ok

\* C15: when the first-contact notification fails, the handling of the event
\* goes on: the sender's row is stored with the current time as its
\* lastInteraction, a blocked sender who is not the owner gets the ban
\* notice, and the request is not answered through the catch block
C15_NotifyFailureNotFatal ==
  [][NotifyFailedEvent =>
       LET u == last'.h.update IN
       /\ \A r \in BotUsersWith(botUsers', u.token, u.from) :
            r.lastInteraction = now'
       /\ (\E r \in BotUsersWith(botUsers', u.token, u.from) :
              r.isBlocked /\ u.from # last'.h.creatorId)
            => CountKind(last'.h.out, "ban") = 1
       /\ last'.h.resp # 500]_vars

\* the replies of a maker-bot handler
Replies(h) == {h.out[i].kind : i \in DOMAIN h.out}

\* the step is one of invocation s of the maker's webhook
StepOf(s) == mk[s].h.pc \notin {"idle", "done"} /\ mk'[s] # mk[s]

\* C16: a step of a handler adds a Bot row only for the token it was sent,
\* when Telegram knows that token, no row of it existed and its webhook is
\* registered; and a handler that reports an invalid token, a token in use
\* or a failed setup has added no row
C16_BotRowOnlyAfterAllChecks ==
  [][\A s \in Slots :
       /\ (StepOf(s) /\ bots' # bots) =>
            LET t == mk[s].h.update.text IN
            /\ bots' = bots \cup {BotRow(t, mk[s].h.update.from)}
            /\ t \in RealTokens
            /\ BotsWith(bots, t) = {}
            /\ t \in webhooks
            /\ Replies(mk'[s].h) \cap {"invalidToken", "tokenInUse",
                                       "setupFailed"} = {}
       /\ (StepOf(s) /\ Replies(mk'[s].h) \cap
              {"invalidToken", "tokenInUse", "setupFailed"} # {}) =>
            bots' = bots /\ ~mk'[s].h.created]_vars

\* user 2 made bot B, and a later attempt with a token that Telegram rejects
\* was refused
C16_Witness ==
  /\ BotRow(TokB, U2) \in bots /\ TokB \in webhooks
  /\ last.kind = "maker" /\ "invalidToken" \in Replies(last.h)
  /\ last.h.update.text = TokX /\ BotsWith(bots, TokX) = {}

\* invocation s, which was sent the token of an existing bot by a user asked
\* for a token, is over
DuplicateAttemptOver(s) ==
  /\ mk[s].h.pc = "done" /\ mk'[s] = IdleMaker
  /\ mk[s].existed /\ mk[s].h.token # NoToken

\* C17: no token ever has two Bot rows, also when requests that create a bot
\* overlap; no Bot row is ever changed by a creation; and a request to
\* create a bot whose token already has a row adds nothing and is answered
\* with "token already in use", unless Telegram did not confirm the token
C17_OneBotPerToken ==
  [][/\ \A t \in Tokens \cup {TokX} : Cardinality(BotsWith(bots', t)) <= 1
     /\ \A b \in bots : b \in bots'
     /\ \A s \in Slots :
          DuplicateAttemptOver(s) =>
            /\ ~mk[s].h.created
            /\ Replies(mk[s].h) \in {{"tokenInUse"}, {"invalidToken"}}]_vars

\* two overlapping requests sent the same new token: one made the bot, and
\* the insert of the other hit the unique index
C17_Witness ==
  /\ last.kind = "maker" /\ ~last.h.created
  /\ "error" \in Replies(last.h)
  /\ Cardinality(BotsWith(bots, last.h.update.text)) = 1
  /\ \A b \in BotsWith(bots, last.h.update.text) :
       b.creatorId # last.h.update.from

\* the replies that only the admin flow of a created bot sends
AdminKinds ==
  {"adminPanel", "stats", "broadcastPrompt", "broadcastDone",
   "broadcastCancelled", "channelPrompt", "channelSet", "channelCancelled",
   "invalidUrl", "blockPrompt", "blockCancelled", "unlockPrompt",
   "unlockCancelled", "invalidUserId", "cannotBlockSelf", "userNotFound",
   "blocked", "unblocked", "backToNormal", "noUsers"}

\* the replies that only the owner's flow of the maker bot sends
OwnerKinds ==
  {"ownerPanel", "stats", "noUsers", "noSubUsers", "broadcastPrompt",
   "broadcastSubPrompt", "broadcastDone", "broadcastSubDone",
   "broadcastCancelled", "blockPrompt", "blockCancelled", "unlockPrompt",
   "unlockCancelled", "removePrompt", "removeCancelled", "invalidUserId",
   "cannotBlockSelf", "userNotFound", "blocked", "unblocked", "botRemoved"}

\* the rows that were there keep their block flag
BlockFlagsSame(old, new) ==
  \A r \in old : \A q \in new : q.id = r.id => q.isBlocked = r.isBlocked

\* every membership in an admin state is the bot owner's, and every user of
\* the maker bot in an admin state is the platform owner
AdminStatesAreOwners ==
  /\ \A r \in botUsers :
       r.adminState # "none" =>
         \E b \in BotsWith(bots, r.botToken) : b.creatorId = r.userId
  /\ \A r \in users : r.adminState # "none" => r.userId = OWNER_ID

\* the step handles an event that somebody other than the bot's owner sent
\* to a created bot
StrangerEvent ==
  /\ CreatedEvent
  /\ last'.h.creatorId # NoId
  /\ last'.h.update.from # last'.h.creatorId

\* the step handles a message that somebody other than the platform owner
\* sent to the maker bot
MakerStrangerEvent == MakerEvent /\ last'.h.update.from # OWNER_ID

\* C18: only a bot's owner has a membership of that bot in an admin state
\* and only the platform owner has a maker-bot row in an admin state; and an
\* event from anybody else gets no reply of an admin flow, sets no channel
\* URL, blocks and unblocks nobody, sends nothing to third parties but the
\* first-contact notification, and removes no bot through the owner's
\* Remove Bot (a bot goes only through the user's own Delete Bot)
C18_AdminOnlyForOwners ==
  [][/\ AdminStatesAreOwners'
     /\ StrangerEvent =>
          /\ Replies(last'.h) \cap AdminKinds = {}
          /\ channelUrls' = channelUrls /\ bots' = bots
          /\ BlockFlagsSame(botUsers, botUsers')
          /\ \A i \in DOMAIN last'.h.out :
               \/ last'.h.out[i].to = last'.h.update.chat
               \/ last'.h.out[i].kind = "notify"
     /\ MakerStrangerEvent =>
          /\ Replies(last'.h) \cap OwnerKinds = {}
          /\ BlockFlagsSame(users, users')
          /\ \A i \in DOMAIN last'.h.out :
               \/ last'.h.out[i].to = last'.h.update.from
               \/ last'.h.out[i].kind \in {"newUser", "newBot"}
          /\ bots \ bots' # {} => "botDeleted" \in Replies(last'.h)]_vars

\* while the platform owner is in the owner panel, somebody else sent /panel
\* to the maker bot and was refused
C18_Witness ==
  /\ last.kind = "maker" /\ last.h.update.from = U2
  /\ last.h.update.text = CmdPanel
  /\ "notAuthorized" \in Replies(last.h)
  /\ \E r \in users : r.adminState # "none"
  /\ \E r \in botUsers : r.adminState # "none"

\* the step handles the text /clear sent to the maker bot
ClearEvent == MakerEvent /\ last'.h.update.text = CmdClear

\* C19: /clear from the platform owner leaves the Bot, BotUser, ChannelUrl
\* and User collections empty, and /clear from anybody else changes no
\* collection
C19_OwnerClearsAll ==
  [][ClearEvent =>
       IF last'.h.update.from = OWNER_ID
       THEN bots' = {} /\ botUsers' = {} /\ channelUrls' = {} /\ users' = {}
       ELSE StoreUnchanged]_vars

\* the sum of a field of the records of a sequence
RECURSIVE SumOf(_, _)
SumOf(v, f) == IF v = <<>> THEN 0 ELSE Head(v)[f] + SumOf(Tail(v), f)

\* the step handles a message of the owner that Broadcast Sub sent out
SubBroadcastEvent ==
  MakerEvent /\ "broadcastSubDone" \in Replies(last'.h)

\* broadcastMessage was called once per bot, only for bots with a member who
\* joined and is not blocked, and the totals are the sums of its counts,
\* which are the counts of the sends
SubCallsAndTotals ==
  LET v == last'.h.visited
      sends == SelectSeq(last'.h.out, LAMBDA e : e.kind = "sendMessage")
  IN  /\ \A i, j \in DOMAIN v : i # j => v[i].token # v[j].token
      /\ \A i \in DOMAIN v : BroadcastTargets(botUsers, v[i].token) # <<>>
      /\ last'.h.totalSuccess = SumOf(v, "successCount")
      /\ last'.h.totalFail = SumOf(v, "failCount")
      /\ last'.h.totalSuccess = Len(SelectSeq(sends, LAMBDA e : e.ok))
      /\ last'.h.totalFail = Len(SelectSeq(sends, LAMBDA e : ~e.ok))

\* C20: Broadcast Sub calls broadcastMessage for the bots in descending order
\* of their count of joined members, only for bots that have a member who
\* joined and is not blocked, and its totals are the sums of the counts of
\* these calls
C20_SubBroadcastByJoinedCount ==
  [][SubBroadcastEvent =>
       /\ \A i, j \in DOMAIN last'.h.visited :
            i < j => JoinedCount(botUsers, last'.h.visited[i].token)
                       >= JoinedCount(botUsers, last'.h.visited[j].token)
       /\ SubCallsAndTotals]_vars

\* C20, amended: the order is the descending order of the bots' count of
\* membership rows, joined or not
C20_SubBroadcastByUserCount ==
  [][SubBroadcastEvent =>
       /\ \A i, j \in DOMAIN last'.h.visited :
            i < j => UserCount(botUsers, last'.h.visited[i].token)
                       >= UserCount(botUsers, last'.h.visited[j].token)
       /\ SubCallsAndTotals]_vars

\* bot A with three members of whom one joined was served before bot B with
\* two members who both joined, and a send of each outcome was counted
C20_Witness ==
  /\ last.kind = "maker" /\ "broadcastSubDone" \in Replies(last.h)
  /\ Len(last.h.visited) = 2
  /\ last.h.visited[1].token = TokA /\ last.h.visited[2].token = TokB
  /\ UserCount(botUsers, TokA) = 3 /\ UserCount(botUsers, TokB) = 2
  /\ last.h.totalSuccess = 2 /\ last.h.totalFail = 1

\* the rows that are not keyed by token t are what they were
OtherTenantsUntouched(t) ==
  /\ bots' = bots
  /\ {r \in botUsers' : r.botToken # t} = {r \in botUsers : r.botToken # t}
  /\ {r \in channelUrls' : r.botToken # t}
       = {r \in channelUrls : r.botToken # t}

\* C21: every step of the handling of a request to a created bot leaves the
\* Bot rows as they are and changes no BotUser and no ChannelUrl row of
\* another bot, also while a request to another bot or of another user is
\* being handled
C21_OnlyOwnTenantRows ==
  [][\A s \in Slots :
       (inflight[s].pc \notin {"idle", "done"} /\ inflight'[s] # inflight[s])
         => OtherTenantsUntouched(inflight[s].update.token)]_vars

\* while the owner of bot A was setting its URL, the owner of bot B blocked
\* a member of bot B: each bot has the change of its own owner only
C21_Witness ==
  /\ \E r \in BotUsersWith(botUsers, TokB, U1) : r.isBlocked
  /\ \A r \in BotUsersWith(botUsers, TokA, U1) : ~r.isBlocked
  /\ [botToken |-> TokA, url |-> UrlStoredFoo] \in channelUrls
  /\ [botToken |-> TokB, url |-> UrlStoredTestChannel] \in channelUrls
  /\ \E s \in Slots : inflight[s].pc = "script"

\* invocation s is inside broadcastMessage: a send is awaited
Broadcasting(s) == inflight[s].pc = "broadcastSend"

\* C22: no two invocations are inside broadcastMessage for the same bot at
\* the same time
C22_OneBroadcastPerBot ==
  \A s, t \in Slots :
    (s # t /\ Broadcasting(s) /\ Broadcasting(t))
      => inflight[s].update.token # inflight[t].update.token

\* C23: while the sends of a broadcast are still going on, the request that
\* started it has been answered
C23_AcknowledgedBeforeSends ==
  \A s \in Slots : Broadcasting(s) => inflight[s].resp = 200

\* the step is one in which invocation s has sent a reply of the admin flow
\* and Telegram has accepted it
AdminReplyStep(s) ==
  /\ inflight[s].pc \notin {"idle", "done"}
  /\ Len(inflight'[s].out) = Len(inflight[s].out) + 1
  /\ LET e == inflight'[s].out[Len(inflight'[s].out)] IN
       e.ok /\ e.kind \in AdminKinds

\* C24: when a reply of the admin flow has been sent, the handler holds no
\* change of the sender's row that is still to be saved: what the step
\* changes was stored before the reply went out
C24_PersistBeforeReply ==
  [][\A s \in Slots : AdminReplyStep(s) => inflight'[s].dirty = {}]_vars

\* invocation s ends in this step with reply kind k to its sender
EndsWith(s, k) ==
  /\ StepOf(s) /\ mk'[s].h.pc = "done"
  /\ Sent(mk[s].h.update.from, k, TRUE) \in
       {mk'[s].h.out[i] : i \in DOMAIN mk'[s].h.out}

\* the step of the sender of invocation s is none after the step
BackAtNone(s) ==
  \A r \in UsersWith(users', mk[s].h.update.from) : r.step = "none"

\* C25: when the making of a bot ends with the report of an invalid token,
\* of a token in use or of a failed setup, the sender's step is none
C25_FailedCreateAborts ==
  [][\A s \in Slots :
       (EndsWith(s, "invalidToken") \/ EndsWith(s, "tokenInUse")
          \/ EndsWith(s, "setupFailed")) => BackAtNone(s)]_vars

\* C25, amended: with a token in use or a failed setup the sender's step is
\* none; with an invalid token the failure is reported and the sender's row
\* is left as it is, the token being asked for again
C25_FailedCreateAbortsButInvalid ==
  [][\A s \in Slots :
       /\ (EndsWith(s, "tokenInUse") \/ EndsWith(s, "setupFailed"))
            => BackAtNone(s)
       /\ EndsWith(s, "invalidToken") => users' = users]_vars

\* a user asked for a token sent one whose webhook could not be set, and is
\* back at step none
C25_Witness ==
  /\ last.kind = "maker" /\ "setupFailed" \in Replies(last.h)
  /\ \A r \in UsersWith(users, last.h.update.from) : r.step = "none"
  /\ \E r \in users : r.step = "create_bot"

\* the text x is not accepted as input of admin state st by sender u
InvalidAdminInput(st, x, u) ==
  /\ x \notin {CmdStart, CmdPanel, LblCancel}
  /\ \/ /\ st = "awaiting_channel"
        /\ x # NoText /\ ~UrlRegexTest(CorrectedUrl(x))
     \/ /\ st \in {"awaiting_block", "awaiting_unlock"}
        /\ (x = NoText \/ ~IsNumericId(Trim(x)))
     \/ /\ st = "awaiting_block"
        /\ x # NoText /\ Trim(x) = u

\* the step handles a message of the owner of a created bot that is not
\* valid input of the admin state the owner is in
ValidationErrorEvent ==
  /\ CreatedEvent
  /\ last'.h.update.kind = "message"
  /\ last'.h.update.from = last'.h.creatorId
  /\ \E r \in BotUsersWith(botUsers, last'.h.update.token,
                            last'.h.update.from) :
       InvalidAdminInput(r.adminState, last'.h.update.text,
                         last'.h.update.from)

\* C26: an input that is not valid in the owner's awaiting_* state (a text
\* the URL pattern rejects, an id that is not digits or a message without
\* text, the owner's own id to block) is answered with a reply to the owner,
\* leaves the owner's adminState as it is and changes no ChannelUrl row and
\* no block flag
C26_ValidationErrorsRecovered ==
  [][ValidationErrorEvent =>
       LET u == last'.h.update IN
       /\ SendsTo(last'.h.out, u.chat) # <<>>
       /\ \A r \in BotUsersWith(botUsers, u.token, u.from) :
            \A q \in BotUsersWith(botUsers', u.token, u.from) :
              q.adminState = r.adminState
       /\ channelUrls' = channelUrls
       /\ BlockFlagsSame(botUsers, botUsers')]_vars

\* every send of the handled request was accepted by Telegram
AllDelivered == \A i \in DOMAIN last'.h.out : last'.h.out[i].ok

\* the step handles the Broadcast label sent by the owner of a created bot
\* who is in the admin panel
BroadcastLabelEvent ==
  /\ CreatedEvent /\ AllDelivered
  /\ last'.h.update.text = LblBroadcast
  /\ last'.h.update.from = last'.h.creatorId
  /\ \E r \in BotUsersWith(botUsers, last'.h.update.token,
                            last'.h.update.from) :
       r.adminState = "admin_panel"

\* C27: the Broadcast label moves the owner to awaiting_broadcast exactly
\* when the bot has a member who joined and is not blocked; otherwise the
\* owner gets a reply and stays in admin_panel
C27_BroadcastNeedsRecipients ==
  [][BroadcastLabelEvent =>
       LET u == last'.h.update
           some == BroadcastTargets(botUsers, u.token) # <<>>
       IN  /\ SendsTo(last'.h.out, u.chat) # <<>>
           /\ \A q \in BotUsersWith(botUsers', u.token, u.from) :
                q.adminState = IF some THEN "awaiting_broadcast"
                               ELSE "admin_panel"]_vars

\* the step handles a message of the owner of a created bot who is in
\* awaiting_broadcast and not blocked
BroadcastInputEvent ==
  /\ CreatedEvent
  /\ last'.h.update.kind = "message"
  /\ last'.h.update.from = last'.h.creatorId
  /\ \E r \in BotUsersWith(botUsers, last'.h.update.token,
                            last'.h.update.from) :
       r.adminState = "awaiting_broadcast" /\ ~r.isBlocked

\* the users other than the sender that the handled request sent to
MemberRecipients ==
  {last'.h.out[i].to : i \in DOMAIN last'.h.out} \ {last'.h.update.chat}

\* C28: in awaiting_broadcast Cancel sends to no member and any other
\* content goes to exactly the joined, unblocked members other than the
\* sender and is followed by the report of the counts; either way the owner
\* is back in admin_panel
C28_BroadcastOrCancel ==
  [][BroadcastInputEvent =>
       LET u == last'.h.update
           targets == BroadcastTargets(botUsers, u.token)
       IN  /\ \A q \in BotUsersWith(botUsers', u.token, u.from) :
                q.adminState = "admin_panel"
           /\ IF u.text = LblCancel THEN MemberRecipients = {}
              ELSE /\ MemberRecipients =
                        {targets[i] : i \in DOMAIN targets} \ {u.from}
                   /\ \E i \in DOMAIN last'.h.out :
                        /\ last'.h.out[i].kind = "broadcastDone"
                        /\ last'.h.out[i].ok]_vars

\* the step handles a numeric id, other than the owner's own, sent by the
\* owner of a created bot who is in awaiting_block or awaiting_unlock
BlockInputEvent ==
  /\ CreatedEvent
  /\ last'.h.update.kind = "message"
  /\ last'.h.update.from = last'.h.creatorId
  /\ last'.h.update.text # NoText
  /\ IsNumericId(Trim(last'.h.update.text))
  /\ Trim(last'.h.update.text) # last'.h.update.from
  /\ \E r \in BotUsersWith(botUsers, last'.h.update.token,
                            last'.h.update.from) :
       r.adminState \in {"awaiting_block", "awaiting_unlock"} /\ ~r.isBlocked

\* the flag of the named member's row is set as the admin state says, no
\* other flag changes and the owner is in admin_panel; or nobody is named
\* and no flag changes
BlockOutcome ==
  LET u == last'.h.update
      target == Trim(u.text)
      found == BotUsersWith(botUsers, u.token, target)
      owner == CHOOSE r \in BotUsersWith(botUsers, u.token, u.from) : TRUE
  IN  IF found = {} THEN BlockFlagsSame(botUsers, botUsers')
      ELSE /\ \A q \in botUsers' :
                IF q.botToken = u.token /\ q.userId = target
                THEN q.isBlocked = (owner.adminState = "awaiting_block")
                ELSE \E r \in botUsers :
                       r.id = q.id /\ r.isBlocked = q.isBlocked
           /\ \A q \in BotUsersWith(botUsers', u.token, u.from) :
                q.adminState = "admin_panel"

\* C29: a numeric id of a member of the bot sent in awaiting_block
\* (awaiting_unlock) sets isBlocked of that member's row to true (false),
\* changes no other row's flag and returns the owner to admin_panel; an id
\* of no member changes no flag
C29_BlockExactlyTheTarget == [][BlockInputEvent => BlockOutcome]_vars

\* the moves of adminState that the state diagram names
DiagramEdges ==
  {<<"none", "admin_panel">>, <<"admin_panel", "none">>}
  \cup {<<"admin_panel", a>> : a \in AdminStates \ {"none", "admin_panel"}}
  \cup {<<a, "admin_panel">> : a \in AdminStates \ {"none", "admin_panel"}}

\* the move that the branch of /start adds: out of an awaiting_* state
StartEdges == {<<a, "none">> : a \in AdminStates \ {"none", "admin_panel"}}

\* every stored adminState is one of the six values, and the handler in
\* slot s moves the adminState of the row it loaded only along allowed(text)
FlowMoves(s, allowed(_)) ==
  /\ \A r \in botUsers' : r.adminState \in AdminStates
  /\ LET d == inflight[s].doc
         e == inflight'[s].doc
     IN  (d.id # 0 /\ e.id = d.id /\ e.adminState # d.adminState) =>
           <<d.adminState, e.adminState>> \in allowed(inflight[s].update.text)

\* C30 as stated: adminState takes the six values only and every handled
\* event moves it along the edges of the diagram, so that an awaiting_*
\* state is left only to admin_panel
C30_AdminFlowEdges ==
  [][\A s \in Slots : FlowMoves(s, LAMBDA x : DiagramEdges)]_vars

\* C30: adminState takes the six values only and every handled event moves
\* it along the edges of the diagram or, when the event is /start, from an
\* awaiting_* state to none
C30_AdminFlowEdgesOrStart ==
  [][\A s \in Slots :
       FlowMoves(s, LAMBDA x : IF x = CmdStart
                               THEN DiagramEdges \cup StartEdges
                               ELSE DiagramEdges)]_vars

\* the only request so far is the owner's /start: its handler loaded the row
\* in awaiting_block and has set adminState to none, which it saves next
C30_Witness ==
  /\ events = 1
  /\ \E s \in Slots :
       /\ inflight[s].update.text = CmdStart
       /\ inflight[s].doc.id # 0
       /\ inflight[s].doc.adminState = "none"
  /\ \A r \in BotUsersWith(botUsers, TokA, U1) :
       r.adminState = "awaiting_block"

\* the step handles a message of bot A's owner, who is in admin_panel, that
\* is neither /start, /panel nor a label of the panel
UnknownPanelInput ==
  /\ CreatedEvent
  /\ last'.h.update.kind = "message"
  /\ last'.h.update.from = last'.h.creatorId
  /\ last'.h.update.text \notin {CmdStart, CmdPanel} \cup PanelLabels
  /\ \E r \in BotUsersWith(botUsers, last'.h.update.token,
                            last'.h.update.from) :
       r.adminState = "admin_panel" /\ ~r.isBlocked

\* the step handles a message of the platform owner, who is in admin_panel,
\* that no command or hears middleware takes and that is no label of the
\* owner panel
UnknownOwnerPanelInput ==
  /\ MakerEvent
  /\ last'.h.update.from = OWNER_ID
  /\ \/ last'.h.update.content # "text"
     \/ /\ Route(last'.h.update.text) \in {"text", "clear"}
        /\ last'.h.update.text \notin OwnerPanelLabels
  /\ \E r \in UsersWith(users, OWNER_ID) :
       r.adminState = "admin_panel" /\ ~r.isBlocked

\* bot A acknowledged the message, sent nothing and left its owner's
\* adminState and userStep as they were
IgnoredByCreated ==
  LET u == last'.h.update IN
  /\ last'.h.resp = 200
  /\ last'.h.out = <<>>
  /\ \A r \in BotUsersWith(botUsers, u.token, u.from) :
       \E q \in BotUsersWith(botUsers', u.token, u.from) :
         q.id = r.id /\ q.adminState = r.adminState /\ q.userStep = r.userStep

\* the maker bot acknowledged the message, sent nothing and left the
\* platform owner's adminState and step as they were
IgnoredByMaker ==
  /\ last'.h.resp = 200
  /\ last'.h.out = <<>>
  /\ \A r \in UsersWith(users, OWNER_ID) :
       \E q \in UsersWith(users', OWNER_ID) :
         q.id = r.id /\ q.adminState = r.adminState /\ q.step = r.step

\* C31: a message of the owner that the admin panel does not know is
\* acknowledged and answered with nothing, and the owner's adminState and
\* step stay as they are, in a created bot and in the maker bot
C31_UnknownLabelIgnored ==
  [][(UnknownPanelInput => IgnoredByCreated)
     /\ (UnknownOwnerPanelInput => IgnoredByMaker)]_vars

\* both owners are in admin_panel still after bot A ignored a text it does
\* not know and acknowledged it
C31_Witness ==
  /\ last.kind = "created"
  /\ last.h.update.text = TxtHello
  /\ last.h.update.from = last.h.creatorId
  /\ last.h.resp = 200
  /\ last.h.out = <<>>
  /\ events = 2
  /\ \A r \in BotUsersWith(botUsers, TokA, U1) : r.adminState = "admin_panel"
  /\ \A r \in UsersWith(users, OWNER_ID) : r.adminState = "admin_panel"

\* the step handles the "joined" callback of a user who has a row of the
\* bot and is not blocked
JoinedEvent ==
  /\ CreatedEvent
  /\ last'.h.update.kind = "callback"
  /\ last'.h.update.data = "joined"
  /\ \E r \in BotUsersWith(botUsers, last'.h.update.token,
                            last'.h.update.from) : ~r.isBlocked

\* the sender's row says hasJoined, and every other row is as it was
JoinedOutcome ==
  LET u == last'.h.update
      mine(r) == r.botToken = u.token /\ r.userId = u.from
  IN  /\ \A q \in BotUsersWith(botUsers', u.token, u.from) : q.hasJoined
      /\ {r \in botUsers : ~mine(r)} = {q \in botUsers' : ~mine(q)}

\* C32: the "joined" callback of a member who is not blocked sets hasJoined
\* of that member's row, whatever the row said before, and changes no other
\* row
C32_JoinedSetsHasJoined == [][JoinedEvent => JoinedOutcome]_vars

\* the transport call that echoes a message of each kind of content
EchoCall ==
  [c \in ContentKinds |->
     CASE c = "text" -> "sendMessage"
       [] c = "photo" -> "sendPhoto"
       [] c = "document" -> "sendDocument"
       [] c = "video" -> "sendVideo"
       [] c = "audio" -> "sendAudio"
       [] c = "voice" -> "sendVoice"
       [] c = "sticker" -> "sendSticker"
       [] OTHER -> "unsupported"]

\* the step handles a message of a member of the bot; r is the member's row
MemberMessage(r) ==
  /\ CreatedEvent
  /\ last'.h.update.kind = "message"
  /\ r \in BotUsersWith(botUsers, last'.h.update.token, last'.h.update.from)

\* the handler made one send, to the sender, of the call for the content
EchoedOnce ==
  \E ok \in BOOLEAN :
    last'.h.out = <<Sent(last'.h.update.chat,
                         EchoCall[last'.h.update.content], ok)>>

\* the handler sent the sender no echo
NotEchoed ==
  \A i \in DOMAIN last'.h.out :
    last'.h.out[i].to = last'.h.update.chat =>
      last'.h.out[i].kind \notin {EchoCall[c] : c \in DOMAIN EchoCall}

\* C33 as stated: every message of a joined member who is not blocked and
\* whose userStep is none is answered with one send to the sender, the echo
\* of its kind of content, and a member who has not joined gets no echo
C33_JoinedMembersEchoed ==
  [][\A r \in botUsers :
       MemberMessage(r) =>
         /\ (r.hasJoined /\ ~r.isBlocked /\ r.userStep = "none") => EchoedOnce
         /\ ~r.hasJoined => NotEchoed]_vars

\* C33: every message other than /start and /panel of a joined member who
\* is not blocked and whose userStep and adminState are none is answered
\* with one send to the sender, the echo of its kind of content, and a
\* member who has not joined gets no echo
C33_JoinedMembersEchoedButCommands ==
  [][\A r \in botUsers :
       MemberMessage(r) =>
         /\ ( /\ r.hasJoined /\ ~r.isBlocked
              /\ r.userStep = "none" /\ r.adminState = "none"
              /\ last'.h.update.text \notin {CmdStart, CmdPanel} )
              => EchoedOnce
         /\ ~r.hasJoined => NotEchoed]_vars

\* a joined member's video came back as a video, after a photo of the
\* member who has not joined was answered with nothing
C33_Witness ==
  /\ last.kind = "created"
  /\ last.h.update.content = "video"
  /\ last.h.update.from = U2
  /\ last.h.out = <<Sent(U2, "sendVideo", TRUE)>>
  /\ \E r \in BotUsersWith(botUsers, TokA, U3) :
       ~r.hasJoined /\ r.lastInteraction = now

\* C34: a Bot row disappears only in the handling of a request of its
\* creator or of the platform owner, and a request of anybody else leaves
\* the rows of the bot, its channel URL and its webhook as they were
C34_DeleteOnlyByOwner ==
  [][\A b \in bots :
       (MakerEvent /\ last'.h.update.from \notin {b.creatorId, OWNER_ID}) =>
         /\ b \in bots'
         /\ \A r \in botUsers : r.botToken = b.token => r \in botUsers'
         /\ \A c \in channelUrls : c.botToken = b.token => c \in channelUrls'
         /\ (b.token \in webhooks) = (b.token \in webhooks')]_vars

\* no invocation of either webhook is in progress
Quiescent ==
  \A s \in Slots : inflight[s].pc = "idle" /\ mk[s].h.pc = "idle"

\* C35: whenever no handler is in progress, every BotUser row and every
\* ChannelUrl row carries the token of a Bot row
C35_RowsBelongToBots ==
  Quiescent =>
    /\ \A r \in botUsers : BotsWith(bots, r.botToken) # {}
    /\ \A c \in channelUrls : BotsWith(bots, c.botToken) # {}

\* the step ends invocation s of the maker's webhook, which has inserted a
\* Bot row
CreatedBotOver(s) ==
  /\ StepOf(s)
  /\ mk'[s].h.pc = "done"
  /\ mk'[s].h.route = "text"
  /\ mk'[s].h.created

\* C36: the invocation that inserted a Bot row sends the confirmation to
\* the creator and sets the creator's step to none, whether or not the
\* notification of the new bot reached the platform owner
C36_CreatedBotConfirmed ==
  [][\A s \in Slots :
       CreatedBotOver(s) =>
         /\ "botMade" \in Replies(mk'[s].h)
         /\ \A r \in UsersWith(users', mk'[s].h.update.from) :
              r.step = "none"]_vars

\* the step handles a /panel that the maker bot answers with the owner
\* admin panel
OwnerPanelShown ==
  /\ MakerEvent
  /\ Route(last'.h.update.text) = "panel"
  /\ "ownerPanel" \in Replies(last'.h)

\* C37: when /panel is answered with the owner admin panel, the platform
\* owner has a User row afterwards and its adminState is admin_panel
C37_PanelShownMeansAdminPanel ==
  [][OwnerPanelShown =>
       /\ UsersWith(users', OWNER_ID) # {}
       /\ \A r \in UsersWith(users', OWNER_ID) :
            r.adminState = "admin_panel"]_vars

\* the step handles the text /start, in a well-formed update, of a user who
\* has a row of the bot and is not blocked
StartEvent ==
  /\ CreatedEvent
  /\ last'.h.update.kind = "message"
  /\ last'.h.update.text = CmdStart
  /\ last'.h.update.chat # NoId
  /\ \E r \in BotUsersWith(botUsers, last'.h.update.token,
                            last'.h.update.from) : ~r.isBlocked

\* the sender's userStep and adminState are none, nothing went to another
\* member, and no channel URL and no isBlocked flag changed
StartOutcome ==
  LET u == last'.h.update IN
  /\ \A q \in BotUsersWith(botUsers', u.token, u.from) :
       q.userStep = "none" /\ q.adminState = "none"
  /\ \A i \in DOMAIN last'.h.out :
       last'.h.out[i].to = u.chat \/ last'.h.out[i].kind = "notify"
  /\ channelUrls' = channelUrls
  /\ BlockFlagsSame(botUsers, botUsers')

\* C38: /start of a member who is not blocked, the owner in any admin state
\* included, sets the member's userStep and adminState to none, starts no
\* broadcast and changes no channel URL and no isBlocked flag
C38_StartResets == [][StartEvent => StartOutcome]_vars

\* C39: a BotUser row that says hasJoined says so after every step in which
\* it is still there
C39_HasJoinedMonotone ==
  [][\A r \in botUsers :
       r.hasJoined =>
         \A q \in botUsers' : q.id = r.id => q.hasJoined]_vars

\* user 2 has joined, and a request of user 2 that had loaded the row
\* before has saved it since
C39_Witness ==
  /\ \A r \in BotUsersWith(botUsers, TokA, U2) : r.hasJoined
  /\ \E s \in Slots :
       /\ inflight[s].update.from = U2
       /\ inflight[s].update.kind = "message"
       /\ inflight[s].pc = "done"
       /\ inflight[s].resp = 200
       /\ ~inflight[s].doc.hasJoined

\* C40: when the owner of bot A, asked for the channel URL, sends the URL
\* that an accepted input has stored for the bot, the input is accepted and
\* the stored URL stays what it was
C40_StoredUrlIsFixedPoint ==
  [][\A c \in ChannelUrlsWith(channelUrls, TokA) :
       UrlInputEvent(c.url) =>
         /\ CountKind(last'.h.out, "invalidUrl") = 0
         /\ channelUrls' = channelUrls]_vars

====
